---- MODULE Spec2Model ----
(***************************************************************************)
(* Smart Contract Copilot: the rule-based analyzer, fix application and    *)
(* the top-level UI state container.                                       *)
(*                                                                         *)
(* Text is a sequence of one-character strings, so that split, trim,       *)
(* includes and replace are computed character by character as the         *)
(* JavaScript string methods compute them.                                 *)
(***************************************************************************)
EXTENDS Integers, Sequences, FiniteSets, TLC

VARIABLES
    pc,               \* position of the function-level harness
    code,             \* source text handed to the analyzer / applyFixes
    fixes,            \* the (line, fix) pairs handed to applyFixes
    fixedLines,       \* applyFixes: the local array `lines` after the loop
    fixedCode,        \* applyFixes: the returned text
    syntax,           \* analyzeSyntax(code)
    result,           \* analyzeCode(code)
    issues,           \* AuditPanel.analyzeContract() for prop code
    recheck,          \* analyzeSyntax of the text after the tx.origin fixes
    elements,         \* App: element list
    selectedElement,  \* App: selected element or Null
    generatedCode,    \* App: current source text
    showAudit,        \* App: audit panel visible
    showOptimization, \* App: optimization panel visible
    pending,          \* file reads in flight (handleImportContract suspended)
    alerts,           \* the last notice shown by alert(), or NoAlert
    downloads,        \* <<content>> of the contract.sol produced last, <<>> before any
    clock,            \* Date.now()
    isEditing,        \* CodeEditor: editing mode
    editableCode,     \* CodeEditor: edit buffer
    analysis,         \* OptimizationPanel: displayed analysis result or Null
    isAnalyzing,      \* OptimizationPanel: Analyze clicked, result not yet set
    appliedFixes,     \* OptimizationPanel: ids <<"syntax" | "gas", index>> marked applied
    timers,           \* OptimizationPanel: setTimeout callbacks not yet run, oldest first
    rounds            \* Fix All clicks since the panel was mounted

fnVars == <<pc, code, fixes, fixedLines, fixedCode, syntax, result, issues, recheck>>
panelVars == <<analysis, isAnalyzing, appliedFixes, timers, rounds>>
uiVars == <<elements, selectedElement, generatedCode, showAudit, showOptimization,
            pending, alerts, downloads, clock, isEditing, editableCode,
            analysis, isAnalyzing, appliedFixes, timers, rounds>>
vars == <<pc, code, fixes, fixedLines, fixedCode, syntax, result, issues, recheck,
          elements, selectedElement, generatedCode, showAudit, showOptimization,
          pending, alerts, downloads, clock, isEditing, editableCode,
          analysis, isAnalyzing, appliedFixes, timers, rounds>>

\* the value of a state holding no object
Null == [null |-> TRUE]

(***************************************************************************)
(* Bounds                                                                  *)
(***************************************************************************)
MaxLines == 2   \* lines of the text handed to applyFixes
MaxFixes == 3   \* pairs of the list handed to applyFixes
MaxFrags == 3   \* fragments concatenated into a text handed to the analyzers
MaxElements == 1   \* elements on the canvas, whole application
MaxCanvas == 2     \* elements on the canvas, element list alone
MaxListed == 2     \* elements of a list handed to generateContract
MaxClock == 1      \* values Date.now() advances through
MaxPending == 1    \* file reads in flight, whole application
MaxReads == 2      \* file reads in flight, import alone
MaxPanelLines == 2 \* lines of the text the optimization panel is opened on
MaxTimers == 2     \* setTimeout callbacks of the panel not yet run
MaxRounds == 4     \* Fix All clicks on one mounted panel
MaxFindings == 4   \* findings of one list whose button is clicked
MaxTextLines == 2  \* lines of a text on which a fix button is clicked

(***************************************************************************)
(* JavaScript string primitives                                            *)
(***************************************************************************)
NL == "\n"

\* String.prototype.trim strips these (the ones the alphabet can contain)
WhiteSpace == {" ", "\t", "\n", "\r", "\f"}

\* p occurs in s at 1-based position i
IsAt(s, p, i) ==
    /\ i >= 1
    /\ i + Len(p) - 1 <= Len(s)
    /\ \A k \in 1..Len(p) : s[i + k - 1] = p[k]

includes(s, p) == \E i \in 1..(Len(s) - Len(p) + 1) : IsAt(s, p, i)

\* 1-based position of the first occurrence (only used when includes(s, p))
FirstAt(s, p) ==
    CHOOSE i \in 1..(Len(s) - Len(p) + 1) :
        /\ IsAt(s, p, i)
        /\ \A j \in 1..(i - 1) : ~IsAt(s, p, j)

\* 0-based, -1 when absent
indexOf(s, p) == IF includes(s, p) THEN FirstAt(s, p) - 1 ELSE -1

startsWith(s, p) == IsAt(s, p, 1)
endsWith(s, p) == Len(p) <= Len(s) /\ IsAt(s, p, Len(s) - Len(p) + 1)

RECURSIVE split(_)
split(s) ==
    IF ~includes(s, <<NL>>) THEN <<s>>
    ELSE LET i == FirstAt(s, <<NL>>)
         IN  <<SubSeq(s, 1, i - 1)>> \o split(SubSeq(s, i + 1, Len(s)))

RECURSIVE join(_)
join(ls) ==
    IF Len(ls) = 0 THEN <<>>
    ELSE IF Len(ls) = 1 THEN ls[1]
    ELSE ls[1] \o <<NL>> \o join(Tail(ls))

trim(s) ==
    LET keep == {i \in 1..Len(s) : s[i] \notin WhiteSpace}
    IN  IF keep = {} THEN <<>>
        ELSE LET lo == CHOOSE i \in keep : \A j \in keep : i <= j
                 hi == CHOOSE i \in keep : \A j \in keep : j <= i
             IN  SubSeq(s, lo, hi)

\* s.replace(/p/g, r) for a literal pattern p
RECURSIVE replaceAll(_, _, _)
replaceAll(s, p, r) ==
    IF ~includes(s, p) THEN s
    ELSE LET i == FirstAt(s, p)
         IN  SubSeq(s, 1, i - 1) \o r \o replaceAll(SubSeq(s, i + Len(p), Len(s)), p, r)

\* s.replace(p, r) for a literal pattern p: the first occurrence only
replaceFirst(s, p, r) ==
    IF ~includes(s, p) THEN s
    ELSE LET i == FirstAt(s, p)
         IN  SubSeq(s, 1, i - 1) \o r \o SubSeq(s, i + Len(p), Len(s))

(***************************************************************************)
(* SolidityAnalyzer.applyFixes                                             *)
(***************************************************************************)
\* Array.prototype.sort is stable: x, the last element of the input, goes
\* after every element whose line is >= x.line
InsertDesc(sorted, x) ==
    LET k == Cardinality({i \in 1..Len(sorted) : sorted[i].line >= x.line})
    IN  SubSeq(sorted, 1, k) \o <<x>> \o SubSeq(sorted, k + 1, Len(sorted))

RECURSIVE sortedFixes(_)
sortedFixes(fs) ==
    IF Len(fs) = 0 THEN <<>>
    ELSE InsertDesc(sortedFixes(SubSeq(fs, 1, Len(fs) - 1)), fs[Len(fs)])

\* the index taken as 0-based: lines[fix.line] instead of lines[fix.line - 1]
ApplyOneZeroBased(lines, fix) ==
    IF fix.line > 0 /\ fix.line <= Len(lines)
    THEN IF fix.line + 1 <= Len(lines)
         THEN [lines EXCEPT ![fix.line + 1] = fix.fix]
         ELSE Append(lines, fix.fix)
    ELSE lines

\* a guard without the upper bound: assigning past the end grows the array
ApplyOneUnbounded(lines, fix) ==
    IF fix.line > 0
    THEN IF fix.line <= Len(lines)
         THEN [lines EXCEPT ![fix.line] = fix.fix]
         ELSE lines \o [i \in 1..(fix.line - Len(lines)) |->
                          IF i = fix.line - Len(lines) THEN fix.fix ELSE <<>>]
    ELSE lines

\* the body of the forEach callback
ApplyOne(lines, fix) ==
    IF fix.line > 0 /\ fix.line <= Len(lines)
    THEN [lines EXCEPT ![fix.line] = fix.fix]
    ELSE lines

RECURSIVE ApplyLoop(_, _)
ApplyLoop(lines, sorted) ==
    IF Len(sorted) = 0 THEN lines
    ELSE ApplyLoop(ApplyOne(lines, Head(sorted)), Tail(sorted))

applyFixesLines(text, fs) == ApplyLoop(split(text), sortedFixes(fs))

\* fixes applied in the order given, each re-splitting the text it produced
RECURSIVE applyFixesDrift(_, _)
applyFixesDrift(text, fs) ==
    IF Len(fs) = 0 THEN text
    ELSE applyFixesDrift(join(ApplyOne(split(text), Head(fs))), Tail(fs))

applyFixes(text, fs) == join(applyFixesLines(text, fs))

(***************************************************************************)
(* Regular-expression character classes                                    *)
(***************************************************************************)
LowerCase == {"a","b","c","d","e","f","g","h","i","j","k","l","m",
              "n","o","p","q","r","s","t","u","v","w","x","y","z"}
UpperCase == {"A","B","C","D","E","F","G","H","I","J","K","L","M",
              "N","O","P","Q","R","S","T","U","V","W","X","Y","Z"}
Digits == {"0","1","2","3","4","5","6","7","8","9"}

\* \w
WordChar == LowerCase \cup UpperCase \cup Digits \cup {"_"}

\* the characters `.` does not match
LineTerminator == {"\n", "\r"}

\* \b between positions i-1 and i of s (i in 1..Len(s)+1)
Boundary(s, i) ==
    LET before == i > 1 /\ s[i - 1] \in WordChar
        after  == i <= Len(s) /\ s[i] \in WordChar
    IN  before # after

\* every character of s[a..b] is in class
AllIn(s, a, b, class) == \A k \in a..b : s[k] \in class
NoneIn(s, a, b, class) == \A k \in a..b : s[k] \notin class

\* least element of a non-empty set of integers
Least(S) == CHOOSE x \in S : \A y \in S : x <= y

\* the positions at which p occurs in s
Occurrences(s, p) == {i \in 1..(Len(s) - Len(p) + 1) : IsAt(s, p, i)}

\* the first position >= k whose character is not in class, Len(s)+1 if none
SkipWhile(s, k, class) ==
    Least({i \in k..Len(s) : s[i] \notin class} \cup {Len(s) + 1})

\* the first position >= k whose character is in class, Len(s)+1 if none
FirstOf(s, k, class) ==
    Least({i \in k..Len(s) : s[i] \in class} \cup {Len(s) + 1})

\* the /i flag
UpperSeq == <<"A","B","C","D","E","F","G","H","I","J","K","L","M",
              "N","O","P","Q","R","S","T","U","V","W","X","Y","Z">>
LowerSeq == <<"a","b","c","d","e","f","g","h","i","j","k","l","m",
              "n","o","p","q","r","s","t","u","v","w","x","y","z">>
ToLower(c) ==
    IF c \in UpperCase
    THEN LowerSeq[CHOOSE i \in 1..26 : UpperSeq[i] = c]
    ELSE c
LowerCased(s) == [i \in 1..Len(s) |-> ToLower(s[i])]

(***************************************************************************)
(* SolidityAnalyzer.analyzeSyntax                                          *)
(***************************************************************************)
Visibilities == {<<"p","u","b","l","i","c">>, <<"p","r","i","v","a","t","e">>, <<"i","n","t","e","r","n","a","l">>, <<"e","x","t","e","r","n","a","l">>}
Mutabilities == {<<"v","i","e","w">>, <<"p","u","r","e">>, <<"p","a","y","a","b","l","e">>}

\* matches of /(public|private|internal|external)\s+(view|pure|payable)/ :
\* [at |-> start, vis |-> $1, mutAt |-> start of $2, mut |-> $2]
VisibilityMatches(s) ==
    {m \in UNION {UNION {{[at |-> i, vis |-> v, mutAt |-> SkipWhile(s, i + Len(v), WhiteSpace),
                           mut |-> mu] : i \in Occurrences(s, v)}
                         : mu \in Mutabilities}
                  : v \in Visibilities} :
        /\ m.mutAt > m.at + Len(m.vis)
        /\ IsAt(s, m.mut, m.mutAt)}

\* the leftmost match, as RegExp.prototype.exec finds it
VisibilityMatch(s) ==
    LET ms == VisibilityMatches(s)
    IN  CHOOSE m \in ms : \A o \in ms : m.at <= o.at

\* line.replace(visibilityPattern, `$2 $1`)
SwapVisibility(s) ==
    IF VisibilityMatches(s) = {} THEN s
    ELSE LET m == VisibilityMatch(s)
         IN  SubSeq(s, 1, m.at - 1) \o m.mut \o <<" ">> \o m.vis
                \o SubSeq(s, m.mutAt + Len(m.mut), Len(s))

\* /\bnow\b/ matches at position i
BareNowAt(s, i) ==
    /\ IsAt(s, <<"n","o","w">>, i)
    /\ Boundary(s, i)
    /\ Boundary(s, i + 3)

\* line.replace(/\bnow\b/g, 'block.timestamp'), scanning from position i
RECURSIVE ReplaceNowFrom(_, _)
ReplaceNowFrom(s, i) ==
    IF i > Len(s) THEN <<>>
    ELSE IF BareNowAt(s, i)
         THEN <<"b","l","o","c","k",".","t","i","m","e","s","t","a","m","p">> \o ReplaceNowFrom(s, i + 3)
         ELSE <<s[i]>> \o ReplaceNowFrom(s, i + 1)

\* /tx\.origin/g replaced once only (a replace without the g flag)
FixTxOriginFirstOnly(line) == replaceFirst(line, <<"t","x",".","o","r","i","g","i","n">>, <<"m","s","g",".","s","e","n","d","e","r">>)

\* line.replace(/tx\.origin/g, 'msg.sender')
FixTxOrigin(line) == replaceAll(line, <<"t","x",".","o","r","i","g","i","n">>, <<"m","s","g",".","s","e","n","d","e","r">>)

\* the fix built from the trimmed line instead of the line
TxOriginFixTrimmed(line, trimmedLine) == FixTxOrigin(trimmedLine)

\* the fix field of the tx.origin finding
TxOriginFix(line, trimmedLine) == FixTxOrigin(line)

\* matches of /pragma solidity [^;]+;/ : [at |-> start, semi |-> position of ;]
PragmaMatches(s) ==
    {m \in {[at |-> i, semi |-> FirstOf(s, i + 16, {";"})]
              : i \in Occurrences(s, <<"p","r","a","g","m","a"," ","s","o","l","i","d","i","t","y"," ">>)} :
        /\ m.semi > m.at + 16
        /\ m.semi <= Len(s)}

\* line.replace(/pragma solidity [^;]+;/, 'pragma solidity ^0.8.19;')
FixPragma(s) ==
    IF PragmaMatches(s) = {} THEN s
    ELSE LET ms == PragmaMatches(s)
             m  == CHOOSE x \in ms : \A o \in ms : x.at <= o.at
         IN  SubSeq(s, 1, m.at - 1) \o <<"p","r","a","g","m","a"," ","s","o","l","i","d","i","t","y"," ","^","0",".","8",".","1","9",";">>
                \o SubSeq(s, m.semi + 1, Len(s))

MissingSemicolon(trimmedLine) ==
    /\ Len(trimmedLine) > 0
    /\ ~startsWith(trimmedLine, <<"/","/">>)
    /\ ~startsWith(trimmedLine, <<"/","*">>)
    /\ ~startsWith(trimmedLine, <<"*">>)
    /\ ~endsWith(trimmedLine, <<";">>)
    /\ ~endsWith(trimmedLine, <<"{">>)
    /\ ~endsWith(trimmedLine, <<"}">>)
    /\ ~includes(trimmedLine, <<"p","r","a","g","m","a">>)
    /\ ~includes(trimmedLine, <<"i","m","p","o","r","t">>)
    /\ ~includes(trimmedLine, <<"c","o","n","t","r","a","c","t">>)
    /\ ~includes(trimmedLine, <<"i","n","t","e","r","f","a","c","e">>)
    /\ ~includes(trimmedLine, <<"l","i","b","r","a","r","y">>)

MsgSemicolon == "Missing semicolon"
MsgOrder == "Incorrect function modifier order. State mutability should come after visibility"
MsgNow == "'now' is deprecated. Use 'block.timestamp' instead"
MsgTxOrigin == "Avoid using tx.origin for authorization. Use msg.sender instead"
MsgSpdx == "Missing SPDX license identifier"
MsgPragma == "Consider using Solidity ^0.8.0 for better security and gas optimization"

SyntaxError(l, c, m, sev, f) ==
    [line |-> l, column |-> c, message |-> m, severity |-> sev, fix |-> f]

\* the findings the forEach callback pushes for one line, in push order
SyntaxOfLine(line, lineNumber) ==
    LET trimmedLine == trim(line)
    IN  (IF MissingSemicolon(trimmedLine)
         THEN <<SyntaxError(lineNumber, Len(line), MsgSemicolon, "error", line \o <<";">>)>>
         ELSE <<>>)
     \o (IF VisibilityMatches(trimmedLine) # {}
         THEN LET m  == VisibilityMatch(trimmedLine)
                  m0 == SubSeq(trimmedLine, m.at, m.mutAt + Len(m.mut) - 1)
              IN  <<SyntaxError(lineNumber, indexOf(line, m0), MsgOrder, "warning",
                                SwapVisibility(line))>>
         ELSE <<>>)
     \o (IF includes(trimmedLine, <<"n","o","w">>)
         THEN <<SyntaxError(lineNumber, indexOf(line, <<"n","o","w">>), MsgNow, "warning",
                            ReplaceNowFrom(line, 1))>>
         ELSE <<>>)
     \o (IF includes(trimmedLine, <<"t","x",".","o","r","i","g","i","n">>)
         THEN <<SyntaxError(lineNumber, indexOf(line, <<"t","x",".","o","r","i","g","i","n">>), MsgTxOrigin, "error",
                            TxOriginFix(line, trimmedLine))>>
         ELSE <<>>)
     \o (IF lineNumber = 1 /\ ~includes(trimmedLine, <<"S","P","D","X","-","L","i","c","e","n","s","e","-","I","d","e","n","t","i","f","i","e","r">>)
         THEN <<SyntaxError(1, 0, MsgSpdx, "warning",
                            <<"/","/"," ","S","P","D","X","-","L","i","c","e","n","s","e","-","I","d","e","n","t","i","f","i","e","r",":"," ","M","I","T","\n">> \o line)>>
         ELSE <<>>)
     \o (IF includes(trimmedLine, <<"p","r","a","g","m","a"," ","s","o","l","i","d","i","t","y">>) /\ ~includes(trimmedLine, <<"^","0",".","8">>)
         THEN <<SyntaxError(lineNumber, 0, MsgPragma, "warning", FixPragma(line))>>
         ELSE <<>>)

RECURSIVE SyntaxOfLines(_, _)
SyntaxOfLines(lines, index) ==
    IF index >= Len(lines) THEN <<>>
    ELSE SyntaxOfLine(lines[index + 1], index + 1) \o SyntaxOfLines(lines, index + 1)

analyzeSyntax(text) == SyntaxOfLines(split(text), 0)

(***************************************************************************)
(* SolidityAnalyzer.analyzeGasOptimization                                 *)
(***************************************************************************)
\* matches of /require\(([^,]+),\s*"[^"]+"\)/ :
\* [at |-> start, comma |-> position of the comma, last |-> position of the closing )]
RequireMatches(s) ==
    {m \in {LET comma == FirstOf(s, i + 8, {","})
                q1    == SkipWhile(s, comma + 1, WhiteSpace)
                q2    == FirstOf(s, q1 + 1, {"\""})
            IN  [at |-> i, comma |-> comma, q1 |-> q1, q2 |-> q2, last |-> q2 + 1]
              : i \in Occurrences(s, <<"r","e","q","u","i","r","e","(">>)} :
        /\ m.comma > m.at + 8
        /\ m.comma <= Len(s)
        /\ m.q1 <= Len(s)
        /\ s[m.q1] = "\""
        /\ m.q2 > m.q1 + 1
        /\ m.q2 <= Len(s)
        /\ m.last <= Len(s)
        /\ s[m.last] = ")"}

\* line.replace(/require\(([^,]+),\s*"[^"]+"\)/, 'if (!($1)) revert CustomError()')
FixRequire(s) ==
    IF RequireMatches(s) = {} THEN s
    ELSE LET ms == RequireMatches(s)
             m  == CHOOSE x \in ms : \A o \in ms : x.at <= o.at
         IN  SubSeq(s, 1, m.at - 1) \o <<"i","f"," ","(","!","(">> \o SubSeq(s, m.at + 8, m.comma - 1)
                \o <<")",")"," ","r","e","v","e","r","t"," ","C","u","s","t","o","m","E","r","r","o","r","(",")">> \o SubSeq(s, m.last + 1, Len(s))

\* matches of /for\s*\([^;]*;\s*[^<]*<\s*([^.]+)\.length/ :
\* [at |-> start, from |-> start of $1, dot |-> position of the . of .length]
ForLengthMatches(s) ==
    {m \in {LET paren == SkipWhile(s, i + 3, WhiteSpace)
                semi  == FirstOf(s, paren + 1, {";"})
                lt    == FirstOf(s, semi + 1, {"<"})
                dot   == FirstOf(s, lt + 1, {"."})
                g     == SkipWhile(s, lt + 1, WhiteSpace)
            IN  [at |-> i, paren |-> paren, semi |-> semi, lt |-> lt, dot |-> dot,
                 from |-> IF g >= dot THEN dot - 1 ELSE g]
              : i \in Occurrences(s, <<"f","o","r">>)} :
        /\ m.paren <= Len(s)
        /\ s[m.paren] = "("
        /\ m.semi <= Len(s)
        /\ m.lt <= Len(s)
        /\ m.dot > m.lt + 1
        /\ IsAt(s, <<".","l","e","n","g","t","h">>, m.dot)}

\* line.replace(<the for pattern>, 'uint256 length = $1.length;\n        for (uint256 i = 0; i < length')
FixForLength(s) ==
    IF ForLengthMatches(s) = {} THEN s
    ELSE LET ms == ForLengthMatches(s)
             m  == CHOOSE x \in ms : \A o \in ms : x.at <= o.at
         IN  SubSeq(s, 1, m.at - 1) \o <<"u","i","n","t","2","5","6"," ","l","e","n","g","t","h"," ","="," ">> \o SubSeq(s, m.from, m.dot - 1)
                \o <<".","l","e","n","g","t","h",";","\n"," "," "," "," "," "," "," "," ","f","o","r"," ","(","u","i","n","t","2","5","6"," ","i"," ","="," ","0",";"," ","i"," ","<"," ","l","e","n","g","t","h">>
                \o SubSeq(s, m.dot + 7, Len(s))

\* matches of /\b\w+\.\w+\b/ : [at |-> start, end |-> last position]
MemberAccesses(s) ==
    {m \in {LET dot == SkipWhile(s, i, WordChar)
            IN  [at |-> i, dot |-> dot, end |-> SkipWhile(s, dot + 1, WordChar) - 1]
              : i \in {k \in 1..Len(s) : s[k] \in WordChar /\ Boundary(s, k)}} :
        /\ m.dot <= Len(s)
        /\ s[m.dot] = "."
        /\ m.end > m.dot}

\* /\b\w+\.\w+\b.*\b\w+\.\w+\b/ matches somewhere in s
MultipleSload(s) ==
    \E a, b \in MemberAccesses(s) :
        /\ b.at > a.end
        /\ NoneIn(s, a.end + 1, b.at - 1, LineTerminator)

GasOptimization(l, t, i, cur, opt, g) ==
    [line |-> l, type |-> t, issue |-> i, currentCode |-> cur, optimizedCode |-> opt,
     gasSavings |-> g]

IssueUint == "Using uint256 for small values wastes gas"
IssueString == "String storage is expensive"
IssueRequire == "String error messages in require statements consume extra gas"
IssuePublic == "Public variables create automatic getters, consuming deployment gas"
IssueLength == "Accessing array.length in loops wastes gas"
IssueIncrement == "Post-increment (i++) is less gas efficient than pre-increment"
IssueStorage == "Using storage in functions can be expensive"
IssueSload == "Multiple storage reads of the same variable waste gas"

\* the optimizations the forEach callback pushes for one line, in push order
GasOfLine(line, lineNumber) ==
    LET trimmedLine == trim(line)
    IN  (IF includes(trimmedLine, <<"u","i","n","t","2","5","6">>) /\ ~includes(trimmedLine, <<"m","a","p","p","i","n","g">>)
         THEN <<GasOptimization(lineNumber, "storage", IssueUint, line,
                                replaceFirst(line, <<"u","i","n","t","2","5","6">>, <<"u","i","n","t","1","2","8">>), 2000)>>
         ELSE <<>>)
     \o (IF includes(trimmedLine, <<"s","t","r","i","n","g">>) /\ includes(trimmedLine, <<"p","u","b","l","i","c">>)
         THEN <<GasOptimization(lineNumber, "storage", IssueString, line,
                                replaceFirst(line, <<"s","t","r","i","n","g">>, <<"b","y","t","e","s","3","2">>), 15000)>>
         ELSE <<>>)
     \o (IF /\ includes(trimmedLine, <<"r","e","q","u","i","r","e","(">>)
            /\ includes(trimmedLine, <<"\"">>)
            /\ RequireMatches(trimmedLine) # {}
         THEN <<GasOptimization(lineNumber, "computation", IssueRequire, line,
                                FixRequire(line), 3000)>>
         ELSE <<>>)
     \o (IF includes(trimmedLine, <<"p","u","b","l","i","c">>) /\ ~includes(trimmedLine, <<"f","u","n","c","t","i","o","n">>)
         THEN <<GasOptimization(lineNumber, "storage", IssuePublic, line,
                                replaceFirst(line, <<"p","u","b","l","i","c">>, <<"p","r","i","v","a","t","e">>), 2400)>>
         ELSE <<>>)
     \o (IF includes(trimmedLine, <<".","l","e","n","g","t","h">>) /\ includes(trimmedLine, <<"f","o","r">>)
         THEN <<GasOptimization(lineNumber, "computation", IssueLength, line,
                                FixForLength(line), 100)>>
         ELSE <<>>)
     \o (IF (includes(trimmedLine, <<"i","+","+">>) \/ includes(trimmedLine, <<"+","+","i">>))
            /\ includes(trimmedLine, <<"i","+","+">>)
         THEN <<GasOptimization(lineNumber, "computation", IssueIncrement, line,
                                replaceFirst(line, <<"i","+","+">>, <<"+","+","i">>), 5)>>
         ELSE <<>>)
     \o (IF includes(trimmedLine, <<"s","t","o","r","a","g","e">>) /\ includes(trimmedLine, <<"f","u","n","c","t","i","o","n">>)
         THEN <<GasOptimization(lineNumber, "memory", IssueStorage, line,
                                replaceFirst(line, <<"s","t","o","r","a","g","e">>, <<"m","e","m","o","r","y">>), 800)>>
         ELSE <<>>)
     \o (IF MultipleSload(trimmedLine)
         THEN <<GasOptimization(lineNumber, "storage", IssueSload, line,
                                <<"/","/"," ","C","a","c","h","e"," ","s","t","o","r","a","g","e"," ","v","a","r","i","a","b","l","e","\n"," "," "," "," "," "," "," "," ">> \o line, 2100)>>
         ELSE <<>>)

RECURSIVE GasOfLines(_, _)
GasOfLines(lines, index) ==
    IF index >= Len(lines) THEN <<>>
    ELSE GasOfLine(lines[index + 1], index + 1) \o GasOfLines(lines, index + 1)

analyzeGasOptimization(text) == GasOfLines(split(text), 0)

(***************************************************************************)
(* SolidityAnalyzer.analyzeCode                                            *)
(***************************************************************************)
OptimizationResult(s, g, h) == [syntaxErrors |-> s, gasOptimizations |-> g, hasIssues |-> h]

\* hasIssues computed from the syntax list alone
HasIssuesSyntaxOnly(syntaxErrors, gasOptimizations) == Len(syntaxErrors) > 0

HasIssues(syntaxErrors, gasOptimizations) ==
    Len(syntaxErrors) > 0 \/ Len(gasOptimizations) > 0

\* `!code || code.trim().length === 0`
IsBlank(text) == Len(text) = 0 \/ Len(trim(text)) = 0

\* the guard of the early return dropped
NeverBlank(text) == FALSE

\* the guard of the early return of analyzeCode
AnalyzeCodeEmpty(text) == IsBlank(text)

analyzeCode(text) ==
    IF AnalyzeCodeEmpty(text)
    THEN OptimizationResult(<<>>, <<>>, FALSE)
    ELSE LET syntaxErrors     == analyzeSyntax(text)
             gasOptimizations == analyzeGasOptimization(text)
         IN  OptimizationResult(syntaxErrors, gasOptimizations,
                                HasIssues(syntaxErrors, gasOptimizations))

(***************************************************************************)
(* AuditPanel.analyzeContract                                              *)
(***************************************************************************)
\* /kw\s+\w+/ matches somewhere in s
KeywordThenName(s, kw) ==
    \E i \in Occurrences(s, kw) :
        LET w == SkipWhile(s, i + Len(kw), WhiteSpace)
        IN  w > i + Len(kw) /\ w <= Len(s) /\ s[w] \in WordChar

\* /function\s+\w+.*tail/ matches somewhere in s; bounded: the tail stands between \b
FunctionThen(s, tail, bounded) ==
    \E i \in Occurrences(s, <<"f","u","n","c","t","i","o","n">>) :
        LET w == SkipWhile(s, i + 8, WhiteSpace)
        IN  /\ w > i + 8
            /\ w <= Len(s)
            /\ s[w] \in WordChar
            /\ \E k \in Occurrences(s, tail) :
                 /\ k > w
                 /\ NoneIn(s, w + 1, k - 1, LineTerminator)
                 /\ bounded => (Boundary(s, k) /\ Boundary(s, k + Len(tail)))

\* /owner|onlyOwner|Ownable/i
hasOwnerPattern(text) ==
    LET lower == LowerCased(text)
    IN  \/ includes(lower, LowerCased(<<"o","w","n","e","r">>))
        \/ includes(lower, LowerCased(<<"o","n","l","y","O","w","n","e","r">>))
        \/ includes(lower, LowerCased(<<"O","w","n","a","b","l","e">>))

\* /modifier\s+\w+/
hasModifiers(text) == KeywordThenName(text, <<"m","o","d","i","f","i","e","r">>)

\* /function\s+\w+.*\b(onlyOwner|onlyAdmin|restricted)\b/
hasRestrictedFunctions(text) ==
    \E kw \in {<<"o","n","l","y","O","w","n","e","r">>, <<"o","n","l","y","A","d","m","i","n">>, <<"r","e","s","t","r","i","c","t","e","d">>} : FunctionThen(text, kw, TRUE)

\* /function\s+\w+.*payable/
hasPayableFunctions(text) == FunctionThen(text, <<"p","a","y","a","b","l","e">>, FALSE)

\* /ReentrancyGuard|nonReentrant/
hasReentrancyGuard(text) ==
    includes(text, <<"R","e","e","n","t","r","a","n","c","y","G","u","a","r","d">>) \/ includes(text, <<"n","o","n","R","e","e","n","t","r","a","n","t">>)

\* /event\s+\w+/
hasEvents(text) == KeywordThenName(text, <<"e","v","e","n","t">>)

\* the filter of functionLines and the predicate of hasStateChangingFunctions
StateChangingFunctionLine(line) ==
    LET trimmed == trim(line)
    IN  /\ includes(trimmed, <<"f","u","n","c","t","i","o","n">>)
        /\ (includes(trimmed, <<"p","u","b","l","i","c">>) \/ includes(trimmed, <<"e","x","t","e","r","n","a","l">>))
        /\ ~includes(trimmed, <<"v","i","e","w">>)
        /\ ~includes(trimmed, <<"p","u","r","e">>)

\* matches of /pragma solidity\s+([^;]+);/ : [at |-> start, group |-> $1]
FloatingPragmaMatches(s) ==
    {m \in {LET g    == SkipWhile(s, i + 15, WhiteSpace)
                semi == FirstOf(s, g, {";"})
            IN  [at |-> i, ws |-> g - (i + 15), semi |-> semi,
                 group |-> IF semi > g THEN SubSeq(s, g, semi - 1)
                           ELSE SubSeq(s, g - 1, g - 1)]
              : i \in Occurrences(s, <<"p","r","a","g","m","a"," ","s","o","l","i","d","i","t","y">>)} :
        /\ m.ws >= 1
        /\ m.semi <= Len(s)
        /\ m.semi = m.at + 15 + m.ws => m.ws >= 2}

TitleAccess == "Missing Access Control"
TitleReentrancy == "Potential Reentrancy Vulnerability"
TitleEvents == "Missing Events"
TitleTxOrigin == "Use of tx.origin"
TitleTimestamp == "Timestamp Dependence"
TitleCall == "Unchecked External Call"
TitleOverflow == "Potential Integer Overflow"
TitleLicense == "Missing License Identifier"
TitlePragma == "Floating Pragma"

\* line 0 stands for an issue without the optional line field
AuditIssue(t, ti, l) == [type |-> t, title |-> ti, line |-> l]

\* the issues the lines.forEach callback pushes for one line
AuditOfLine(line, lineNumber) ==
    LET trimmedLine == trim(line)
    IN  (IF includes(trimmedLine, <<"t","x",".","o","r","i","g","i","n">>)
         THEN <<AuditIssue("high", TitleTxOrigin, lineNumber)>>
         ELSE <<>>)
     \o (IF includes(trimmedLine, <<"b","l","o","c","k",".","t","i","m","e","s","t","a","m","p">>) \/ includes(trimmedLine, <<"n","o","w">>)
         THEN <<AuditIssue("medium", TitleTimestamp, lineNumber)>>
         ELSE <<>>)
     \o (IF /\ includes(trimmedLine, <<".","c","a","l","l","(">>) \/ includes(trimmedLine, <<".","d","e","l","e","g","a","t","e","c","a","l","l","(">>)
            /\ ~includes(trimmedLine, <<"r","e","q","u","i","r","e","(">>)
            /\ ~includes(trimmedLine, <<"i","f"," ","(">>)
         THEN <<AuditIssue("high", TitleCall, lineNumber)>>
         ELSE <<>>)
     \o (IF /\ includes(trimmedLine, <<"p","r","a","g","m","a"," ","s","o","l","i","d","i","t","y">>)
            /\ ~includes(trimmedLine, <<"^","0",".","8">>)
            /\ \/ includes(trimmedLine, <<"+">>)
               \/ includes(trimmedLine, <<"-">>)
               \/ includes(trimmedLine, <<"*">>)
         THEN <<AuditIssue("medium", TitleOverflow, lineNumber)>>
         ELSE <<>>)

RECURSIVE AuditOfLines(_, _)
AuditOfLines(lines, index) ==
    IF index >= Len(lines) THEN <<>>
    ELSE AuditOfLine(lines[index + 1], index + 1) \o AuditOfLines(lines, index + 1)

\* one reentrancy issue per line holding a payable function signature
ReentrancyPerLine(text) ==
    IF ~hasReentrancyGuard(text)
    THEN LET lines == split(text)
             hit   == {i \in 1..Len(lines) : FunctionThen(lines[i], <<"p","a","y","a","b","l","e">>, FALSE)}
         IN  [i \in 1..Cardinality(hit) |-> AuditIssue("critical", TitleReentrancy, 0)]
    ELSE <<>>

\* the reentrancy check
ReentrancyIssues(text) ==
    IF hasPayableFunctions(text) /\ ~hasReentrancyGuard(text)
    THEN <<AuditIssue("critical", TitleReentrancy, 0)>>
    ELSE <<>>

analyzeContract(text) ==
    IF IsBlank(text) THEN <<>>
    ELSE LET lines == split(text)
         IN  (IF /\ ~hasOwnerPattern(text)
                 /\ ~hasModifiers(text)
                 /\ ~hasRestrictedFunctions(text)
                 /\ \E i \in 1..Len(lines) : StateChangingFunctionLine(lines[i])
              THEN <<AuditIssue("high", TitleAccess, 0)>>
              ELSE <<>>)
          \o ReentrancyIssues(text)
          \o (IF /\ ~hasEvents(text)
                 /\ \E i \in 1..Len(lines) : StateChangingFunctionLine(lines[i])
              THEN <<AuditIssue("medium", TitleEvents, 0)>>
              ELSE <<>>)
          \o AuditOfLines(lines, 0)
          \o (IF ~includes(text, <<"S","P","D","X","-","L","i","c","e","n","s","e","-","I","d","e","n","t","i","f","i","e","r">>)
              THEN <<AuditIssue("info", TitleLicense, 0)>>
              ELSE <<>>)
          \o (IF /\ FloatingPragmaMatches(text) # {}
                 /\ LET ms == FloatingPragmaMatches(text)
                        m  == CHOOSE x \in ms : \A o \in ms : x.at <= o.at
                    IN  ~includes(m.group, <<"^">>)
              THEN <<AuditIssue("low", TitlePragma, 0)>>
              ELSE <<>>)

(***************************************************************************)
(* App.generateContract: the text rendered from the element list           *)
(***************************************************************************)
\* the fallback taken for an absent field only, '' kept
OrAbsentOnly(config, key, fallback) ==
    IF key \in DOMAIN config THEN config[key] ELSE fallback

\* config.key || fallback, for the text fields: absent and '' are both falsy
Or(config, key, fallback) ==
    IF key \in DOMAIN config /\ config[key] # <<>> THEN config[key] ELSE fallback

\* config.key as a condition, for the boolean fields
Flag(config, key) == key \in DOMAIN config /\ config[key]

\* elements.filter(el => el.type === type)
OfType(list, type) == SelectSeq(list, LAMBDA el : el.type = type)

\* the header with the doc comment put between licence line and pragma
HeaderDocFirst ==
    <<"/","/"," ","S","P","D","X","-","L","i","c","e","n","s","e","-","I","d","e","n","t","i","f","i","e","r",":"," ","M","I","T","\n","/","*","*","\n"," ","*"," ","@","t","i","t","l","e"," ","G","e","n","e","r","a","t","e","d"," ","S","m","a","r","t"," ","C","o","n","t","r","a","c","t","\n"," ","*"," ","@","d","e","v"," ","T","h","i","s"," ","c","o","n","t","r","a","c","t"," ","w","a","s"," ","g","e","n","e","r","a","t","e","d"," ","u","s","i","n","g"," ","S","m","a","r","t"," ","C","o","n","t","r","a","c","t"," ","C","o","p","i","l","o","t","\n"," ","*"," ","@","n","o","t","i","c","e"," ","D","r","a","g"," ","&"," ","d","r","o","p"," ","s","m","a","r","t"," ","c","o","n","t","r","a","c","t"," ","d","e","v","e","l","o","p","m","e","n","t"," ","t","o","o","l","\n"," ","*","/","\n","p","r","a","g","m","a"," ","s","o","l","i","d","i","t","y"," ","^","0",".","8",".","1","9",";","\n","\n","c","o","n","t","r","a","c","t"," ","G","e","n","e","r","a","t","e","d","C","o","n","t","r","a","c","t"," ","{","\n">>

Header ==
    <<"/","/"," ","S","P","D","X","-","L","i","c","e","n","s","e","-","I","d","e","n","t","i","f","i","e","r",":"," ","M","I","T","\n","p","r","a","g","m","a"," ","s","o","l","i","d","i","t","y"," ","^","0",".","8",".","1","9",";","\n","\n","/","*","*","\n"," ","*"," ","@","t","i","t","l","e"," ","G","e","n","e","r","a","t","e","d"," ","S","m","a","r","t"," ","C","o","n","t","r","a","c","t","\n"," ","*"," ","@","d","e","v"," ","T","h","i","s"," ","c","o","n","t","r","a","c","t"," ","w","a","s"," ","g","e","n","e","r","a","t","e","d"," ","u","s","i","n","g"," ","S","m","a","r","t"," ","C","o","n","t","r","a","c","t"," ","C","o","p","i","l","o","t","\n"," ","*"," ","@","n","o","t","i","c","e"," ","D","r","a","g"," ","&"," ","d","r","o","p"," ","s","m","a","r","t"," ","c","o","n","t","r","a","c","t"," ","d","e","v","e","l","o","p","m","e","n","t"," ","t","o","o","l","\n"," ","*","/","\n","c","o","n","t","r","a","c","t"," ","G","e","n","e","r","a","t","e","d","C","o","n","t","r","a","c","t"," ","{","\n">>

renderVariable(element) ==
    LET visibility == Or(element.config, "visibility", <<"p","u","b","l","i","c">>)
        dataType == Or(element.config, "dataType", <<"u","i","n","t","2","5","6">>)
        name == Or(element.config, "name", <<"v","a","r","i","a","b","l","e">>)
    IN  <<" "," "," "," ">> \o dataType \o <<" ">> \o visibility \o <<" ">> \o name \o <<";","\n">>

renderEvent(element) ==
    LET name == Or(element.config, "name", <<"N","e","w","E","v","e","n","t">>)
        params == Or(element.config, "parameters", <<>>)
    IN  <<" "," "," "," ","e","v","e","n","t"," ">> \o name \o <<"(">> \o params \o <<")",";","\n">>

renderModifier(element) ==
    LET name == Or(element.config, "name", <<"n","e","w","M","o","d","i","f","i","e","r">>)
    IN  <<" "," "," "," ","m","o","d","i","f","i","e","r"," ">> \o name
            \o <<"(",")"," ","{","\n"," "," "," "," "," "," "," "," ","/","/"," ","A","d","d"," ","m","o","d","i","f","i","e","r"," ","l","o","g","i","c"," ","h","e","r","e","\n"," "," "," "," "," "," "," "," ","_",";","\n"," "," "," "," ","}","\n","\n">>

renderConstructor(element) ==
    LET params == Or(element.config, "parameters", <<>>)
    IN  <<" "," "," "," ","/","/"," ","C","o","n","s","t","r","u","c","t","o","r","\n">>
            \o <<" "," "," "," ","c","o","n","s","t","r","u","c","t","o","r","(">> \o params
            \o <<")"," ","{","\n"," "," "," "," "," "," "," "," ","/","/"," ","I","n","i","t","i","a","l","i","z","e"," ","c","o","n","t","r","a","c","t"," ","s","t","a","t","e","\n"," "," "," "," ","}","\n","\n">>

renderFunction(element) ==
    LET name == Or(element.config, "name", <<"n","e","w","F","u","n","c","t","i","o","n">>)
        params == Or(element.config, "parameters", <<>>)
        visibility == Or(element.config, "visibility", <<"p","u","b","l","i","c">>)
        returns == IF Or(element.config, "returns", <<>>) # <<>>
                   THEN <<" ","r","e","t","u","r","n","s"," ","(">> \o element.config.returns \o <<")">>
                   ELSE <<>>
        modifiers == (IF Flag(element.config, "payable") THEN <<" ","p","a","y","a","b","l","e">> ELSE <<>>)
                         \o (IF Flag(element.config, "view") THEN <<" ","v","i","e","w">> ELSE <<>>)
                         \o (IF Flag(element.config, "pure") THEN <<" ","p","u","r","e">> ELSE <<>>)
    IN  <<" "," "," "," ","f","u","n","c","t","i","o","n"," ">> \o name \o <<"(">> \o params \o <<")"," ">> \o visibility
            \o modifiers \o returns
            \o <<" ","{","\n"," "," "," "," "," "," "," "," ","/","/"," ","I","m","p","l","e","m","e","n","t"," ","f","u","n","c","t","i","o","n"," ","l","o","g","i","c"," ","h","e","r","e","\n"," "," "," "," ","}","\n","\n">>

renderStruct(element) ==
    LET name == Or(element.config, "name", <<"N","e","w","S","t","r","u","c","t">>)
    IN  <<" "," "," "," ","s","t","r","u","c","t"," ">> \o name
            \o <<" ","{","\n"," "," "," "," "," "," "," "," ","/","/"," ","D","e","f","i","n","e"," ","s","t","r","u","c","t"," ","f","i","e","l","d","s","\n"," "," "," "," "," "," "," "," ","u","i","n","t","2","5","6"," ","i","d",";","\n"," "," "," "," "," "," "," "," ","a","d","d","r","e","s","s"," ","o","w","n","e","r",";","\n"," "," "," "," ","}","\n","\n">>

renderEnum(element) ==
    LET name == Or(element.config, "name", <<"S","t","a","t","u","s">>)
    IN  <<" "," "," "," ","e","n","u","m"," ">> \o name \o <<" ","{"," ","P","e","n","d","i","n","g",","," ","A","c","t","i","v","e",","," ","I","n","a","c","t","i","v","e"," ","}","\n","\n">>

renderMapping(element) ==
    LET name == Or(element.config, "name", <<"m","a","p","p","i","n","g">>)
        visibility == Or(element.config, "visibility", <<"p","u","b","l","i","c">>)
    IN  <<" "," "," "," ","m","a","p","p","i","n","g","(","a","d","d","r","e","s","s"," ","=",">"," ","u","i","n","t","2","5","6",")"," ">> \o visibility \o <<" ">> \o name \o <<";","\n">>

\* the body of the forEach callback of the element's kind
renderElement(element) ==
    CASE element.type = "variable" -> renderVariable(element)
      [] element.type = "event" -> renderEvent(element)
      [] element.type = "modifier" -> renderModifier(element)
      [] element.type = "constructor" -> renderConstructor(element)
      [] element.type = "function" -> renderFunction(element)
      [] element.type = "struct" -> renderStruct(element)
      [] element.type = "enum" -> renderEnum(element)
      [] element.type = "mapping" -> renderMapping(element)

\* list.forEach(element => { code += ... })
RECURSIVE forEach(_)
forEach(list) ==
    IF list = <<>> THEN <<>> ELSE renderElement(Head(list)) \o forEach(Tail(list))

\* a section rendering the first element of its kind only
sectionFirstOnly(title, list) ==
    IF Len(list) > 0 THEN title \o renderElement(Head(list)) ELSE <<>>

\* if (list.length > 0) { code += title; list.forEach(...) }
section(title, list) ==
    IF Len(list) > 0 THEN title \o forEach(list) ELSE <<>>

variablesSection(list) ==
    section(<<"\n"," "," "," "," ","/","/"," ","S","t","a","t","e"," ","V","a","r","i","a","b","l","e","s","\n">>, OfType(list, "variable"))

eventsSection(list) ==
    section(<<"\n"," "," "," "," ","/","/"," ","E","v","e","n","t","s","\n">>, OfType(list, "event"))

modifiersSection(list) ==
    section(<<"\n"," "," "," "," ","/","/"," ","M","o","d","i","f","i","e","r","s","\n">>, OfType(list, "modifier"))

\* elements.find(el => el.type === 'constructor'): the first one only
constructorSection(list) ==
    LET constructors == OfType(list, "constructor")
    IN  IF Len(constructors) > 0 THEN renderConstructor(Head(constructors)) ELSE <<>>

functionsSection(list) ==
    section(<<" "," "," "," ","/","/"," ","F","u","n","c","t","i","o","n","s","\n">>, OfType(list, "function"))

structsSection(list) ==
    section(<<" "," "," "," ","/","/"," ","S","t","r","u","c","t","s","\n">>, OfType(list, "struct"))

enumsSection(list) ==
    section(<<" "," "," "," ","/","/"," ","E","n","u","m","s","\n">>, OfType(list, "enum"))

mappingsSection(list) ==
    section(<<" "," "," "," ","/","/"," ","M","a","p","p","i","n","g","s","\n">>, OfType(list, "mapping"))

\* the sections emitted with the functions ahead of the state variables
generatedTextFunctionsFirst(list) ==
    Header
        \o functionsSection(list)
        \o variablesSection(list)
        \o eventsSection(list)
        \o modifiersSection(list)
        \o constructorSection(list)
        \o structsSection(list)
        \o enumsSection(list)
        \o mappingsSection(list)
        \o <<"}","\n">>

\* the text generateContract hands to setGeneratedCode
generatedText(list) ==
    Header
        \o variablesSection(list)
        \o eventsSection(list)
        \o modifiersSection(list)
        \o constructorSection(list)
        \o functionsSection(list)
        \o structsSection(list)
        \o enumsSection(list)
        \o mappingsSection(list)
        \o <<"}","\n">>

(***************************************************************************)
(* Inputs of the function-level specifications                             *)
(***************************************************************************)
SeqsUpTo(S, n) == UNION {[1..k -> S] : k \in 0..n}

RemoveAt(fs, k) == SubSeq(fs, 1, k - 1) \o SubSeq(fs, k + 1, Len(fs))

RECURSIVE Concat(_)
Concat(ss) == IF Len(ss) = 0 THEN <<>> ELSE Head(ss) \o Concat(Tail(ss))

\* texts of 1..MaxLines lines
ApplyLinePool == {<<>>, <<"a">>}
ApplyCodes == {join(ls) : ls \in SeqsUpTo(ApplyLinePool, MaxLines) \ {<<>>}}

\* replacement texts, one of them spanning two lines
FixTexts == {<<"X">>, <<"Y","\n","Z">>}
FixPairs == [line : 0..(MaxLines + 1), fix : FixTexts]
FixLists == SeqsUpTo(FixPairs, MaxFixes)

\* texts handed to the analyzers: up to MaxFrags fragments concatenated
Fragments ==
    {<<" ">>, <<"\n">>, <<"t","x",".","o","r","i","g","i","n">>, <<"f","u","n","c","t","i","o","n"," ","f","(",")"," ","p","a","y","a","b","l","e"," ","{">>, <<"f","u","n","c","t","i","o","n"," ","g">>,
     <<"p","a","y","a","b","l","e">>, <<"n","o","n","R","e","e","n","t","r","a","n","t">>, <<"/","/"," ","S","P","D","X","-","L","i","c","e","n","s","e","-","I","d","e","n","t","i","f","i","e","r">>, <<"u","i","n","t","2","5","6"," ","x",";">>}
Texts == {Concat(fs) : fs \in SeqsUpTo(Fragments, MaxFrags)}

(***************************************************************************)
(* State of the UI before any user action                                  *)
(***************************************************************************)
NoAlert == "none"

\* OptimizationPanel as mounted: the three useState initial values, no timer
PanelInit ==
    /\ analysis = Null
    /\ isAnalyzing = FALSE
    /\ appliedFixes = {}
    /\ timers = <<>>
    /\ rounds = 0

UIInit ==
    /\ PanelInit
    /\ elements = <<>>
    /\ selectedElement = Null
    /\ generatedCode = <<>>
    /\ showAudit = FALSE
    /\ showOptimization = FALSE
    /\ pending = <<>>
    /\ alerts = NoAlert
    /\ downloads = <<>>
    /\ clock = 0
    /\ isEditing = FALSE
    /\ editableCode = <<>>

FnIdle ==
    /\ fixes = <<>>
    /\ fixedLines = <<>>
    /\ fixedCode = <<>>
    /\ syntax = <<>>
    /\ result = OptimizationResult(<<>>, <<>>, FALSE)
    /\ issues = <<>>
    /\ recheck = <<>>

(***************************************************************************)
(* SpecApplyFixes: applyFixes on every text and fix list of the bounds     *)
(***************************************************************************)
InitApplyFixes ==
    /\ pc = "start"
    /\ code \in ApplyCodes
    /\ fixes \in FixLists
    /\ fixedLines = <<>>
    /\ fixedCode = <<>>
    /\ syntax = <<>>
    /\ result = OptimizationResult(<<>>, <<>>, FALSE)
    /\ issues = <<>>
    /\ recheck = <<>>
    /\ UIInit

ApplyFixesStep ==
    /\ pc = "start"
    /\ fixedLines' = applyFixesLines(code, fixes)
    /\ fixedCode' = applyFixes(code, fixes)
    /\ pc' = "applied"
    /\ UNCHANGED <<code, fixes, syntax, result, issues, recheck>>
    /\ UNCHANGED uiVars

NextApplyFixes == ApplyFixesStep

SpecApplyFixes == InitApplyFixes /\ [][NextApplyFixes]_vars

(***************************************************************************)
(* SpecAnalyzer: the analyzers on every text of the bounds                 *)
(***************************************************************************)
InitAnalyzer ==
    /\ pc = "start"
    /\ code \in Texts
    /\ FnIdle
    /\ UIInit

AnalyzeSyntaxStep ==
    /\ pc = "start"
    /\ syntax' = analyzeSyntax(code)
    /\ pc' = "syntax"
    /\ UNCHANGED <<code, fixes, fixedLines, fixedCode, result, issues, recheck>>
    /\ UNCHANGED uiVars

AnalyzeCodeStep ==
    /\ pc = "start"
    /\ result' = analyzeCode(code)
    /\ pc' = "analyzed"
    /\ UNCHANGED <<code, fixes, fixedLines, fixedCode, syntax, issues, recheck>>
    /\ UNCHANGED uiVars

AnalyzeContractStep ==
    /\ pc = "start"
    /\ issues' = analyzeContract(code)
    /\ pc' = "audited"
    /\ UNCHANGED <<code, fixes, fixedLines, fixedCode, syntax, result, recheck>>
    /\ UNCHANGED uiVars

\* the (line, fix) pairs of the tx.origin findings of a syntax list
TxOriginFixes(errors) ==
    LET RECURSIVE Pick(_)
        Pick(es) ==
            IF Len(es) = 0 THEN <<>>
            ELSE (IF Head(es).message = MsgTxOrigin
                  THEN <<[line |-> Head(es).line, fix |-> Head(es).fix]>>
                  ELSE <<>>) \o Pick(Tail(es))
    IN  Pick(errors)

\* every line with a tx.origin finding replaced by the finding's fix, then re-analysed
RecheckStep ==
    /\ pc = "syntax"
    /\ fixes' = TxOriginFixes(syntax)
    /\ fixedLines' = applyFixesLines(code, fixes')
    /\ fixedCode' = applyFixes(code, fixes')
    /\ recheck' = analyzeSyntax(fixedCode')
    /\ pc' = "rechecked"
    /\ UNCHANGED <<code, syntax, result, issues>>
    /\ UNCHANGED uiVars

NextAnalyzer ==
    \/ AnalyzeSyntaxStep
    \/ AnalyzeCodeStep
    \/ AnalyzeContractStep
    \/ RecheckStep

SpecAnalyzer == InitAnalyzer /\ [][NextAnalyzer]_vars

(***************************************************************************)
(* SpecSyntaxRules: analyzeSyntax and the fix of one finding, on texts of   *)
(* the words the line rules look for                                       *)
(***************************************************************************)
RuleFragments ==
    {<<" ">>, <<"\n">>, <<";">>, <<"x">>, <<"n","o","w">>, <<"k","n","o","w","n">>, <<"i","m","p","o","r","t">>, <<"i","m","p","o","r","t","a","n","t">>, <<"/","/">>}
RuleTexts == {Concat(fs) : fs \in SeqsUpTo(RuleFragments, MaxFrags)}

InitSyntaxRules ==
    /\ pc = "start"
    /\ code \in RuleTexts
    /\ FnIdle
    /\ UIInit

\* OptimizationPanel.applySyntaxFix on finding index of the list, with the
\* analysis it re-runs on the new text
ApplySyntaxFixStep(index) ==
    /\ pc = "syntax"
    /\ index \in 1..Len(syntax)
    /\ syntax[index].fix # <<>>
    /\ LET error == syntax[index]
           lines == split(code)
       IN  /\ fixes' = <<[line |-> error.line, fix |-> error.fix]>>
           /\ fixedLines' = [lines EXCEPT ![error.line] = error.fix]
    /\ fixedCode' = join(fixedLines')
    /\ recheck' = analyzeCode(fixedCode').syntaxErrors
    /\ pc' = "rechecked"
    /\ UNCHANGED <<code, syntax, result, issues>>
    /\ UNCHANGED uiVars

NextSyntaxRules ==
    \/ AnalyzeSyntaxStep
    \/ \E index \in 1..Len(syntax) : ApplySyntaxFixStep(index)

SpecSyntaxRules == InitSyntaxRules /\ [][NextSyntaxRules]_vars

(***************************************************************************)
(* Spec: the top-level UI state container (App) with Header and CodeEditor *)
(***************************************************************************)
AlertNotSol == "Please select a .sol file"
AlertImported == "Successfully imported"
AlertReadError == "Error reading the file. Please try again."
AlertNoCode == "No contract code to export. Please generate a contract first or import an existing one."
AlertExported == "Contract exported successfully!"

\* the kinds the sidebar offers (one of the eight of ContractElement.type)
ElementTypes == {"variable"}

\* the config object of a fresh element: {}
EmptyConfig == [key \in {} |-> <<>>]

\* the config objects ElementNode.handleSave hands over
Configs == {EmptyConfig, [name |-> <<"a">>]}

\* texts the user types into the editor
UITexts == {<<>>, <<" ","\n">>, <<"x",";">>}

\* texts a file holds
FileTexts == {<<" ","\n">>, <<"x",";">>}

\* the files the user can pick: name, whether text() resolves, and the text
FileNames == {<<"c",".","s","o","l">>, <<"c",".","t","x","t">>}
Files ==
    [name : FileNames, readable : {TRUE}, content : FileTexts]
        \cup [name : FileNames, readable : {FALSE}, content : {<<>>}]

Init ==
    /\ pc = "ui"
    /\ code = <<>>
    /\ FnIdle
    /\ UIInit

\* alert() is modal: nothing else runs until the user dismisses it
Idle == pc = "ui" /\ alerts = NoAlert

\* CodeEditor's useEffect: the buffer follows every change of prop code
EditorFollows(newCode) ==
    editableCode' = IF newCode # generatedCode THEN newCode ELSE editableCode

DismissAlert ==
    /\ pc = "ui"
    /\ alerts # NoAlert
    /\ alerts' = NoAlert
    /\ UNCHANGED <<elements, selectedElement, generatedCode, showAudit, showOptimization,
                   pending, downloads, clock, isEditing, editableCode>>
    /\ UNCHANGED fnVars
    /\ UNCHANGED panelVars

\* time passes between two reads of Date.now()
Tick ==
    /\ Idle
    /\ clock < MaxClock
    /\ clock' = clock + 1
    /\ UNCHANGED <<elements, selectedElement, generatedCode, showAudit, showOptimization,
                   pending, alerts, downloads, isEditing, editableCode>>
    /\ UNCHANGED fnVars
    /\ UNCHANGED panelVars

addElement(type) ==
    /\ Idle
    /\ elements' = Append(elements,
                          [type |-> type, config |-> EmptyConfig,
                           id |-> <<type, clock>>,
                           position |-> [x |-> 100 + Len(elements) * 50,
                                         y |-> 100 + Len(elements) * 30]])
    /\ UNCHANGED <<selectedElement, generatedCode, showAudit, showOptimization,
                   pending, alerts, downloads, clock, isEditing, editableCode>>
    /\ UNCHANGED fnVars
    /\ UNCHANGED panelVars

\* { ...el, ...updates }
Spread(el, updates) ==
    [key \in DOMAIN el \cup DOMAIN updates |->
        IF key \in DOMAIN updates THEN updates[key] ELSE el[key]]

\* updateElement spreading the updates over every element of the list
updateElementAll(id, updates) ==
    /\ Idle
    /\ elements' = [k \in 1..Len(elements) |-> Spread(elements[k], updates)]
    /\ UNCHANGED <<selectedElement, generatedCode, showAudit, showOptimization,
                   pending, alerts, downloads, clock, isEditing, editableCode>>
    /\ UNCHANGED fnVars
    /\ UNCHANGED panelVars

updateElement(id, updates) ==
    /\ Idle
    /\ elements' = [k \in 1..Len(elements) |->
                      IF elements[k].id = id
                      THEN Spread(elements[k], updates)
                      ELSE elements[k]]
    /\ UNCHANGED <<selectedElement, generatedCode, showAudit, showOptimization,
                   pending, alerts, downloads, clock, isEditing, editableCode>>
    /\ UNCHANGED fnVars
    /\ UNCHANGED panelVars

\* deleteElement clearing the selection whatever it points at
deleteElementClearsSelection(id) ==
    /\ Idle
    /\ elements' = SelectSeq(elements, LAMBDA el : el.id # id)
    /\ selectedElement' = Null
    /\ UNCHANGED <<generatedCode, showAudit, showOptimization,
                   pending, alerts, downloads, clock, isEditing, editableCode>>
    /\ UNCHANGED fnVars
    /\ UNCHANGED panelVars

deleteElement(id) ==
    /\ Idle
    /\ elements' = SelectSeq(elements, LAMBDA el : el.id # id)
    /\ selectedElement' = IF selectedElement # Null /\ selectedElement.id = id
                          THEN Null
                          ELSE selectedElement
    /\ UNCHANGED <<generatedCode, showAudit, showOptimization,
                   pending, alerts, downloads, clock, isEditing, editableCode>>
    /\ UNCHANGED fnVars
    /\ UNCHANGED panelVars

\* generateContract adding its text to the source text already there
generateContractAppending ==
    /\ Idle
    /\ generatedCode' = generatedCode \o generatedText(elements)
    /\ EditorFollows(generatedCode')
    /\ UNCHANGED <<elements, selectedElement, showAudit, showOptimization,
                   pending, alerts, downloads, clock, isEditing>>
    /\ UNCHANGED fnVars
    /\ UNCHANGED panelVars

generateContract ==
    /\ Idle
    /\ generatedCode' = generatedText(elements)
    /\ EditorFollows(generatedCode')
    /\ UNCHANGED <<elements, selectedElement, showAudit, showOptimization,
                   pending, alerts, downloads, clock, isEditing>>
    /\ UNCHANGED fnVars
    /\ UNCHANGED panelVars

\* Canvas: onSelect={() => onSelectElement(element)}
selectElement(k) ==
    /\ Idle
    /\ selectedElement' = elements[k]
    /\ UNCHANGED <<elements, generatedCode, showAudit, showOptimization,
                   pending, alerts, downloads, clock, isEditing, editableCode>>
    /\ UNCHANGED fnVars
    /\ UNCHANGED panelVars

\* Header.handleFileChange with handleImportContract up to its await
handleFileChange(file) ==
    /\ Idle
    /\ IF endsWith(file.name, <<".","s","o","l">>)
       THEN /\ pending' = Append(pending, [file |-> file, showAudit |-> showAudit])
            /\ UNCHANGED alerts
       ELSE /\ alerts' = AlertNotSol
            /\ UNCHANGED pending
    /\ UNCHANGED <<elements, selectedElement, generatedCode, showAudit, showOptimization,
                   downloads, clock, isEditing, editableCode>>
    /\ UNCHANGED fnVars
    /\ UNCHANGED panelVars

\* the text a successful read hands to setGeneratedCode, whitespace stripped
ImportedTextTrimmed(file) == trim(file.content)

\* the text a successful read hands to setGeneratedCode
ImportedText(file) == file.content

\* handleImportContract resumes with the text of the file
importResolved(k) ==
    /\ Idle
    /\ k \in 1..Len(pending)
    /\ pending[k].file.readable
    /\ generatedCode' = ImportedText(pending[k].file)
    /\ EditorFollows(generatedCode')
    /\ alerts' = AlertImported
    /\ showAudit' = IF ~pending[k].showAudit THEN TRUE ELSE showAudit
    /\ pending' = RemoveAt(pending, k)
    /\ UNCHANGED <<elements, selectedElement, showOptimization, downloads, clock, isEditing>>
    /\ UNCHANGED fnVars
    /\ UNCHANGED panelVars

\* handleImportContract resumes with an error: the catch block
importRejected(k) ==
    /\ Idle
    /\ k \in 1..Len(pending)
    /\ ~pending[k].file.readable
    /\ alerts' = AlertReadError
    /\ pending' = RemoveAt(pending, k)
    /\ UNCHANGED <<elements, selectedElement, generatedCode, showAudit, showOptimization,
                   downloads, clock, isEditing, editableCode>>
    /\ UNCHANGED fnVars
    /\ UNCHANGED panelVars

handleExportContract ==
    /\ Idle
    /\ IF Len(trim(generatedCode)) = 0
       THEN /\ alerts' = AlertNoCode
            /\ UNCHANGED downloads
       ELSE /\ downloads' = <<generatedCode>>
            /\ alerts' = AlertExported
    /\ UNCHANGED <<elements, selectedElement, generatedCode, showAudit, showOptimization,
                   pending, clock, isEditing, editableCode>>
    /\ UNCHANGED fnVars
    /\ UNCHANGED panelVars

\* CodeEditor.downloadCode; the button is rendered outside editing mode
downloadCode ==
    /\ Idle
    /\ ~isEditing
    /\ downloads' = <<generatedCode>>
    /\ UNCHANGED <<elements, selectedElement, generatedCode, showAudit, showOptimization,
                   pending, alerts, clock, isEditing, editableCode>>
    /\ UNCHANGED fnVars
    /\ UNCHANGED panelVars

\* the panel is rendered under showOptimization: hidden, its state and the
\* effect of its timers are gone; shown again, it is mounted anew
PanelFollows ==
    IF showOptimization'
    THEN UNCHANGED panelVars
    ELSE /\ analysis' = Null
         /\ isAnalyzing' = FALSE
         /\ appliedFixes' = {}
         /\ timers' = <<>>
         /\ rounds' = 0

toggleAudit ==
    /\ Idle
    /\ showAudit' = ~showAudit
    /\ showOptimization' = IF showOptimization THEN FALSE ELSE showOptimization
    /\ UNCHANGED <<elements, selectedElement, generatedCode,
                   pending, alerts, downloads, clock, isEditing, editableCode>>
    /\ UNCHANGED fnVars
    /\ PanelFollows

toggleOptimization ==
    /\ Idle
    /\ showOptimization' = ~showOptimization
    /\ showAudit' = IF showAudit THEN FALSE ELSE showAudit
    /\ UNCHANGED <<elements, selectedElement, generatedCode,
                   pending, alerts, downloads, clock, isEditing, editableCode>>
    /\ UNCHANGED fnVars
    /\ PanelFollows

\* OptimizationPanel's onClose, offered while the panel is rendered
closeOptimization ==
    /\ Idle
    /\ showOptimization
    /\ showOptimization' = FALSE
    /\ UNCHANGED <<elements, selectedElement, generatedCode, showAudit,
                   pending, alerts, downloads, clock, isEditing, editableCode>>
    /\ UNCHANGED fnVars
    /\ PanelFollows

handleEdit ==
    /\ Idle
    /\ ~isEditing
    /\ isEditing' = TRUE
    /\ UNCHANGED <<elements, selectedElement, generatedCode, showAudit, showOptimization,
                   pending, alerts, downloads, clock, editableCode>>
    /\ UNCHANGED fnVars
    /\ UNCHANGED panelVars

\* the textarea's onChange
typeCode(text) ==
    /\ Idle
    /\ isEditing
    /\ editableCode' = text
    /\ UNCHANGED <<elements, selectedElement, generatedCode, showAudit, showOptimization,
                   pending, alerts, downloads, clock, isEditing>>
    /\ UNCHANGED fnVars
    /\ UNCHANGED panelVars

\* CodeEditor.handleSave, with App.handleCodeChange as onChange
handleSave ==
    /\ Idle
    /\ isEditing
    /\ generatedCode' = editableCode
    /\ isEditing' = FALSE
    /\ UNCHANGED <<elements, selectedElement, showAudit, showOptimization,
                   pending, alerts, downloads, clock, editableCode>>
    /\ UNCHANGED fnVars
    /\ UNCHANGED panelVars

handleCancel ==
    /\ Idle
    /\ isEditing
    /\ editableCode' = generatedCode
    /\ isEditing' = FALSE
    /\ UNCHANGED <<elements, selectedElement, generatedCode, showAudit, showOptimization,
                   pending, alerts, downloads, clock>>
    /\ UNCHANGED fnVars
    /\ UNCHANGED panelVars

\* the element list is only filled and selected from here; SpecElements
\* below drives its other handlers
Next ==
    \/ DismissAlert
    \/ \E type \in ElementTypes : Len(elements) < MaxElements /\ addElement(type)
    \/ \E k \in 1..Len(elements) : selectElement(k)
    \/ \E file \in Files :
          /\ endsWith(file.name, <<".","s","o","l">>) => Len(pending) < MaxPending
          /\ handleFileChange(file)
    \/ \E k \in 1..Len(pending) : importResolved(k)
    \/ \E k \in 1..Len(pending) : importRejected(k)
    \/ generateContract
    \/ handleExportContract
    \/ downloadCode
    \/ toggleAudit
    \/ toggleOptimization
    \/ closeOptimization
    \/ handleEdit
    \/ \E text \in UITexts : typeCode(text)
    \/ handleSave
    \/ handleCancel

Spec == Init /\ [][Next]_vars

(***************************************************************************)
(* SpecElements: the element list of App alone, driven by Sidebar, Canvas  *)
(* and ElementNode                                                         *)
(***************************************************************************)
\* the kinds dropped on the canvas (two of the eight of ContractElement.type)
CanvasTypes == {"variable", "function"}

NextElements ==
    \/ Tick
    \/ \E type \in CanvasTypes : Len(elements) < MaxCanvas /\ addElement(type)
    \/ \E k \in 1..Len(elements), c \in Configs : updateElement(elements[k].id, [config |-> c])
    \/ \E k \in 1..Len(elements) : deleteElement(elements[k].id)
    \/ \E k \in 1..Len(elements) : selectElement(k)

SpecElements == Init /\ [][NextElements]_vars

(***************************************************************************)
(* SpecGenerate: generateContract on every element list of the bounds      *)
(***************************************************************************)
AllTypes ==
    {"variable", "function", "modifier", "event", "constructor", "struct", "enum",
     "mapping"}

\* the config objects ElementNode can give an element of a kind: the name
\* input for every kind, the selects and check boxes for variable and function
ConfigsOf(type) ==
    {EmptyConfig, [name |-> <<>>], [name |-> <<"a">>]}
        \cup (IF type = "variable"
              THEN {[name |-> <<"b">>, dataType |-> <<"b","o","o","l">>, visibility |-> <<"p","r","i","v","a","t","e">>]}
              ELSE {})
        \cup (IF type = "function"
              THEN {[name |-> <<"b">>, parameters |-> <<"u","i","n","t","2","5","6"," ","p">>, returns |-> <<"b","o","o","l">>,
                     visibility |-> <<"e","x","t","e","r","n","a","l">>, payable |-> TRUE, view |-> FALSE],
                    [visibility |-> <<"i","n","t","e","r","n","a","l">>, view |-> TRUE]}
              ELSE {})

Choices == UNION {[type : {type}, config : ConfigsOf(type)] : type \in AllTypes}

\* the list after one addElement per clock value and an edit of each element
ListOf(choices) ==
    [k \in 1..Len(choices) |->
        [type |-> choices[k].type, config |-> choices[k].config,
         id |-> <<choices[k].type, k - 1>>,
         position |-> [x |-> 100 + (k - 1) * 50, y |-> 100 + (k - 1) * 30]]]

ElementLists == {ListOf(choices) : choices \in SeqsUpTo(Choices, MaxListed)}

InitGenerate ==
    /\ pc = "ui"
    /\ code = <<>>
    /\ FnIdle
    /\ elements \in ElementLists
    /\ selectedElement = IF Len(elements) > 0 THEN elements[Len(elements)] ELSE Null
    /\ generatedCode = <<>>
    /\ showAudit = FALSE
    /\ showOptimization = FALSE
    /\ pending = <<>>
    /\ alerts = NoAlert
    /\ downloads = <<>>
    /\ clock = IF Len(elements) > 0 THEN Len(elements) - 1 ELSE 0
    /\ isEditing = FALSE
    /\ editableCode = <<>>
    /\ PanelInit

NextGenerate == generateContract

SpecGenerate == InitGenerate /\ [][NextGenerate]_vars

(***************************************************************************)
(* SpecImport: file import alone, Header.handleFileChange with             *)
(* App.handleImportContract                                                *)
(***************************************************************************)
(***************************************************************************)
(* OptimizationPanel                                                       *)
(***************************************************************************)
AlertNoCodeInIDE == "No code found in the IDE. Please add some Solidity code first."

AnalyzeDelay == 1000
FixDelay == 500

\* setTimeout(callback, delay): the callback with the text it closes over
Timer(text, delay) == [code |-> text, delay |-> delay]

\* a callback runs once every callback due before it has run: one set earlier
\* with an equal or shorter delay is due first
MayRun(k) == \A j \in 1..(k - 1) : timers[j].delay > timers[k].delay

\* App.handleCodeChange, the panel's onCodeChange
handleCodeChange(newCode) ==
    /\ generatedCode' = newCode
    /\ EditorFollows(newCode)

\* the panel's buttons exist while it is rendered and no alert is up
PanelIdle == Idle /\ showOptimization

\* the Analyze Code button (disabled while analyzing or on blank code) or the
\* Re-analyze button of the view without issues
runAnalysis ==
    /\ PanelIdle
    /\ \/ analysis = Null /\ ~isAnalyzing /\ ~IsBlank(generatedCode)
       \/ analysis # Null /\ ~analysis.hasIssues
    /\ IF IsBlank(generatedCode)
       THEN /\ alerts' = AlertNoCodeInIDE
            /\ UNCHANGED <<isAnalyzing, timers>>
       ELSE /\ isAnalyzing' = TRUE
            /\ timers' = Append(timers, Timer(generatedCode, AnalyzeDelay))
            /\ UNCHANGED alerts
    /\ UNCHANGED <<elements, selectedElement, generatedCode, showAudit, showOptimization,
                   pending, downloads, clock, isEditing, editableCode>>
    /\ UNCHANGED <<analysis, appliedFixes, rounds>>
    /\ UNCHANGED fnVars

\* the callback of runAnalysis
analysisDone(k) ==
    /\ PanelIdle
    /\ k \in 1..Len(timers)
    /\ timers[k].delay = AnalyzeDelay
    /\ MayRun(k)
    /\ analysis' = analyzeCode(timers[k].code)
    /\ isAnalyzing' = FALSE
    /\ timers' = RemoveAt(timers, k)
    /\ UNCHANGED <<elements, selectedElement, generatedCode, showAudit, showOptimization,
                   pending, alerts, downloads, clock, isEditing, editableCode>>
    /\ UNCHANGED <<appliedFixes, rounds>>
    /\ UNCHANGED fnVars

\* the callback of applySyntaxFix, applyGasOptimization and applyAllFixes
reanalysisDone(k) ==
    /\ PanelIdle
    /\ k \in 1..Len(timers)
    /\ timers[k].delay = FixDelay
    /\ MayRun(k)
    /\ analysis' = analyzeCode(timers[k].code)
    /\ timers' = RemoveAt(timers, k)
    /\ UNCHANGED <<elements, selectedElement, generatedCode, showAudit, showOptimization,
                   pending, alerts, downloads, clock, isEditing, editableCode>>
    /\ UNCHANGED <<isAnalyzing, appliedFixes, rounds>>
    /\ UNCHANGED fnVars

\* lines[line - 1] = fix on a JavaScript array: past the end the array grows
\* and the holes join as empty lines
SetLine(lines, line, fix) ==
    IF line <= Len(lines)
    THEN [lines EXCEPT ![line] = fix]
    ELSE lines \o [k \in 1..(line - 1 - Len(lines)) |-> <<>>] \o <<fix>>

FixId(kind, index) == <<kind, index - 1>>

\* the Fix button of syntax finding number index, rendered under
\* error.fix && !isApplied
applySyntaxFix(index) ==
    /\ PanelIdle
    /\ analysis # Null
    /\ analysis.hasIssues
    /\ index \in 1..Len(analysis.syntaxErrors)
    /\ analysis.syntaxErrors[index].fix # <<>>
    /\ FixId("syntax", index) \notin appliedFixes
    /\ LET error   == analysis.syntaxErrors[index]
           newCode == join(SetLine(split(generatedCode), error.line, error.fix))
       IN  /\ handleCodeChange(newCode)
           /\ timers' = Append(timers, Timer(newCode, FixDelay))
    /\ appliedFixes' = appliedFixes \cup {FixId("syntax", index)}
    /\ UNCHANGED <<elements, selectedElement, showAudit, showOptimization,
                   pending, alerts, downloads, clock, isEditing>>
    /\ UNCHANGED <<analysis, isAnalyzing, rounds>>
    /\ UNCHANGED fnVars

\* the Optimize button of gas finding number index, rendered under !isApplied
applyGasOptimization(index) ==
    /\ PanelIdle
    /\ analysis # Null
    /\ analysis.hasIssues
    /\ index \in 1..Len(analysis.gasOptimizations)
    /\ FixId("gas", index) \notin appliedFixes
    /\ LET optimization == analysis.gasOptimizations[index]
           newCode == join(SetLine(split(generatedCode), optimization.line,
                                   optimization.optimizedCode))
       IN  /\ handleCodeChange(newCode)
           /\ timers' = Append(timers, Timer(newCode, FixDelay))
    /\ appliedFixes' = appliedFixes \cup {FixId("gas", index)}
    /\ UNCHANGED <<elements, selectedElement, showAudit, showOptimization,
                   pending, alerts, downloads, clock, isEditing>>
    /\ UNCHANGED <<analysis, isAnalyzing, rounds>>
    /\ UNCHANGED fnVars

\* the (line, fix) pairs applyAllFixes collects: the syntax findings that
\* carry a fix, then every gas optimization
SyntaxFixesOf(syntaxErrors) ==
    LET fixable == SelectSeq(syntaxErrors, LAMBDA error : error.fix # <<>>)
    IN  [k \in 1..Len(fixable) |-> [line |-> fixable[k].line, fix |-> fixable[k].fix]]

GasFixesOf(gasOptimizations) ==
    [k \in 1..Len(gasOptimizations) |->
        [line |-> gasOptimizations[k].line, fix |-> gasOptimizations[k].optimizedCode]]

AllFixesOf(result0) ==
    SyntaxFixesOf(result0.syntaxErrors) \o GasFixesOf(result0.gasOptimizations)

AllFixIds(result0) ==
    {FixId("syntax", i) : i \in 1..Len(result0.syntaxErrors)}
        \cup {FixId("gas", i) : i \in 1..Len(result0.gasOptimizations)}

\* the text Fix All produces from a text and an analysis result
FixAllText(text, result0) == applyFixes(text, AllFixesOf(result0))

\* the Fix All button, rendered under analysis && analysis.hasIssues
applyAllFixes ==
    /\ PanelIdle
    /\ analysis # Null
    /\ analysis.hasIssues
    /\ LET newCode == FixAllText(generatedCode, analysis)
       IN  /\ handleCodeChange(newCode)
           /\ timers' = Append(timers, Timer(newCode, FixDelay))
    /\ appliedFixes' = AllFixIds(analysis)
    /\ rounds' = rounds + 1
    /\ UNCHANGED <<elements, selectedElement, showAudit, showOptimization,
                   pending, alerts, downloads, clock, isEditing>>
    /\ UNCHANGED <<analysis, isAnalyzing>>
    /\ UNCHANGED fnVars

\* the lines the IDE holds when the panel is opened
PanelLines ==
    {<<"x">>, <<"a",".","b","+","c",".","d",";">>, <<"u","i","n","t","2","5","6"," ","a","=","t","x",".","o","r","i","g","i","n",";">>, <<"/","/"," ","S","P","D","X","-","L","i","c","e","n","s","e","-","I","d","e","n","t","i","f","i","e","r",":"," ","M","I","T">>}

PanelTexts == {join(ls) : ls \in UNION {[1..n -> PanelLines] : n \in 1..MaxPanelLines}}

\* the texts the panel with every button is opened on
PanelStartTexts == {<<"x">>, <<"u","i","n","t","2","5","6"," ","a","=","t","x",".","o","r","i","g","i","n",";">>}

\* the optimization panel just opened on a text of the IDE
PanelOn(texts) ==
    /\ pc = "ui"
    /\ code = <<>>
    /\ FnIdle
    /\ PanelInit
    /\ elements = <<>>
    /\ selectedElement = Null
    /\ generatedCode \in texts
    /\ showAudit = FALSE
    /\ showOptimization = TRUE
    /\ pending = <<>>
    /\ alerts = NoAlert
    /\ downloads = <<>>
    /\ clock = 0
    /\ isEditing = FALSE
    /\ editableCode = generatedCode

InitFixLoop == PanelOn(PanelTexts)

\* Analyze, then Fix All and its re-analysis, round after round
NextFixLoop ==
    \/ Len(timers) < MaxTimers /\ runAnalysis
    \/ \E k \in 1..Len(timers) : analysisDone(k)
    \/ timers = <<>> /\ rounds < MaxRounds /\ applyAllFixes
    \/ \E k \in 1..Len(timers) : reanalysisDone(k)

SpecFixLoop == InitFixLoop /\ [][NextFixLoop]_vars

InitPanel == PanelOn(PanelStartTexts)

\* the fix buttons are clicked on the texts of the bound
FixClick == Len(timers) < MaxTimers /\ Len(split(generatedCode)) <= MaxTextLines

\* what the user types into the editor next to the panel
PanelEdits == {<<>>}

\* the panel with every button, the editor, and the two buttons that hide and
\* show the panel
NextPanel ==
    \/ DismissAlert
    \/ Len(timers) < MaxTimers /\ runAnalysis
    \/ \E k \in 1..Len(timers) : analysisDone(k)
    \/ \E k \in 1..Len(timers) : reanalysisDone(k)
    \/ \E index \in 1..MaxFindings : FixClick /\ applySyntaxFix(index)
    \/ \E index \in 1..MaxFindings : FixClick /\ applyGasOptimization(index)
    \/ FixClick /\ rounds < MaxRounds /\ applyAllFixes
    \/ handleEdit
    \/ \E text \in PanelEdits : typeCode(text)
    \/ handleSave
    \/ closeOptimization
    \/ toggleOptimization

SpecPanel == InitPanel /\ [][NextPanel]_vars

NextImport ==
    \/ DismissAlert
    \/ \E file \in Files :
          /\ endsWith(file.name, <<".","s","o","l">>) => Len(pending) < MaxReads
          /\ handleFileChange(file)
    \/ \E k \in 1..Len(pending) : importResolved(k)
    \/ \E k \in 1..Len(pending) : importRejected(k)

SpecImport == Init /\ [][NextImport]_vars

(***************************************************************************)
(* Claims about applyFixes (SpecApplyFixes)                                *)
(***************************************************************************)
InRange(pair, text) == pair.line >= 1 /\ pair.line <= Len(split(text))

\* the pairs of the list that name line n
Naming(fs, n) == {k \in 1..Len(fs) : fs[k].line = n}

\* the last pair of the list that names line n
LastNaming(fs, n) == CHOOSE k \in Naming(fs, n) : \A o \in Naming(fs, n) : o <= k

\* C1 as stated: in the returned text, every line named by an in-range pair is
\* exactly that pair's replacement, for every pair of the list, and every line
\* no pair names is the input line.
C1_EveryPairReplaced ==
    pc = "applied" =>
        LET inLines  == split(code)
            outLines == split(fixedCode)
        IN  /\ \A k \in 1..Len(fixes) :
                 InRange(fixes[k], code) =>
                    /\ fixes[k].line <= Len(outLines)
                    /\ outLines[fixes[k].line] = fixes[k].fix
            /\ \A n \in 1..Len(inLines) :
                 Naming(fixes, n) = {} =>
                    /\ n <= Len(outLines)
                    /\ outLines[n] = inLines[n]

\* C1 amended: the line array joined into the returned text has, at every
\* index named by an in-range pair, the replacement of the LAST pair of the list
\* naming it, and the input line at every other index; these entries are the
\* lines of the returned text when no applied replacement holds a line break.
C1_LastPairReplaces ==
    pc = "applied" =>
        LET inLines == split(code)
        IN  /\ Len(fixedLines) = Len(inLines)
            /\ \A n \in 1..Len(inLines) :
                 fixedLines[n] = IF Naming(fixes, n) # {}
                                 THEN fixes[LastNaming(fixes, n)].fix
                                 ELSE inLines[n]
            /\ fixedCode = join(fixedLines)
            /\ (\A n \in 1..Len(fixedLines) : ~includes(fixedLines[n], <<NL>>))
                  => split(fixedCode) = fixedLines

\* C1 witness: two pairs name the same in-range line with different texts,
\* another line is named by no pair, and the fixes have been applied
C1_Witness ==
    /\ pc = "applied"
    /\ Len(split(code)) = 2
    /\ \E j, k \in 1..Len(fixes) :
         /\ j < k
         /\ fixes[j].line = 1
         /\ fixes[k].line = 1
         /\ fixes[j].fix # fixes[k].fix
    /\ Naming(fixes, 2) = {}
    /\ fixedLines[2] = split(code)[2]

Orderings(n) == {f \in [1..n -> 1..n] : \A a, b \in 1..n : f[a] = f[b] => a = b}
Permuted(fs, f) == [k \in 1..Len(fs) |-> fs[f[k]]]

\* no two in-range pairs give different texts to the same line
NoConflict(fs, text) ==
    \A j, k \in 1..Len(fs) :
        (InRange(fs[j], text) /\ fs[j].line = fs[k].line) => fs[j].fix = fs[k].fix

\* C2 as stated: every permutation of the fix list yields the same output text.
C2_AnyOrderSameOutput ==
    pc = "applied" =>
        \A f \in Orderings(Len(fixes)) :
            applyFixes(code, Permuted(fixes, f)) = fixedCode

\* C2 amended: every permutation of a fix list in which no two in-range pairs
\* give different replacement texts to the same line yields the same output text.
C2_OrderIndependentWithoutConflict ==
    (pc = "applied" /\ NoConflict(fixes, code)) =>
        \A f \in Orderings(Len(fixes)) :
            applyFixes(code, Permuted(fixes, f)) = fixedCode

\* C2 witness: a conflict-free list given in ascending line order, one of its
\* replacements spanning two lines, has been applied
C2_Witness ==
    /\ pc = "applied"
    /\ NoConflict(fixes, code)
    /\ Len(fixes) >= 2
    /\ fixes[1].line = 1
    /\ fixes[2].line = 2
    /\ includes(fixes[1].fix, <<NL>>)
    /\ InRange(fixes[2], code)
    /\ fixedLines[1] = fixes[1].fix
    /\ fixedLines[2] = fixes[2].fix

\* C3: a pair whose line is <= 0 or beyond the last line has no effect (the
\* output is the output of the list without it) and the line array keeps its
\* number of entries.
C3_OutOfRangeIgnored ==
    pc = "applied" =>
        /\ Len(fixedLines) = Len(split(code))
        /\ \A k \in 1..Len(fixes) :
             ~InRange(fixes[k], code) =>
                applyFixes(code, RemoveAt(fixes, k)) = fixedCode

\* C3 witness: a list with a pair at line 0, a pair past the last line and an
\* in-range pair has been applied
C3_Witness ==
    /\ pc = "applied"
    /\ \E k \in 1..Len(fixes) : fixes[k].line = 0
    /\ \E k \in 1..Len(fixes) : fixes[k].line = Len(split(code)) + 1
    /\ \E k \in 1..Len(fixes) : InRange(fixes[k], code) /\ fixedLines[fixes[k].line] = fixes[k].fix

(***************************************************************************)
(* Claims about the analyzers (SpecAnalyzer)                               *)
(***************************************************************************)
\* C4: hasIssues is true exactly when one of the two lists is non-empty.
C4_HasIssuesIffFindings ==
    pc = "analyzed" =>
        (result.hasIssues <=>
            (Len(result.syntaxErrors) > 0 \/ Len(result.gasOptimizations) > 0))

\* C4 witness: an analysis whose only findings are gas optimizations
C4_Witness ==
    /\ pc = "analyzed"
    /\ Len(result.syntaxErrors) = 0
    /\ Len(result.gasOptimizations) > 0
    /\ result.hasIssues

WhitespaceOnly(text) == \A i \in 1..Len(text) : text[i] \in {" ", "\n", "\t", "\r"}

\* C5: for the empty and for every whitespace-only text analyzeCode returns two
\* empty lists and hasIssues = false, and analyzeContract returns no issue.
C5_BlankTextNoFindings ==
    WhitespaceOnly(code) =>
        /\ pc = "analyzed" =>
             /\ result.syntaxErrors = <<>>
             /\ result.gasOptimizations = <<>>
             /\ result.hasIssues = FALSE
        /\ pc = "audited" => issues = <<>>

\* C5 witness: a text of spaces and a line break has been analysed
C5_Witness ==
    /\ pc = "analyzed"
    /\ WhitespaceOnly(code)
    /\ \E i \in 1..Len(code) : code[i] = " "
    /\ \E i \in 1..Len(code) : code[i] = "\n"
    /\ result.hasIssues = FALSE

TxOrigin == <<"t","x",".","o","r","i","g","i","n">>
MsgSender == <<"m","s","g",".","s","e","n","d","e","r">>

\* the positions at which tx.origin stands in a line
TxAt(l) == {i \in 1..Len(l) : i + 8 <= Len(l) /\ SubSeq(l, i, i + 8) = TxOrigin}

\* f is l with every tx.origin replaced by msg.sender and nothing else changed
TxReplaced(l, f) ==
    /\ Len(f) = Len(l) + Cardinality(TxAt(l))
    /\ \A i \in 1..Len(l) :
         LET before == Cardinality({o \in TxAt(l) : o < i})
         IN  /\ i \in TxAt(l) => SubSeq(f, i + before, i + before + 9) = MsgSender
             /\ (\A o \in TxAt(l) : i < o \/ i > o + 8) => f[i + before] = l[i]

\* the tx.origin findings of a syntax list that carry line n
TxFindings(errors, n) ==
    {k \in 1..Len(errors) : errors[k].message = MsgTxOrigin /\ errors[k].line = n}

\* C6: every line containing tx.origin gets a tx.origin finding with its 1-based
\* number whose fix is the line with every tx.origin replaced by msg.sender and
\* every other character unchanged; other lines get none.
C6_TxOriginFinding ==
    pc = "syntax" =>
        LET lines == split(code)
        IN  /\ \A k \in 1..Len(syntax) :
                 syntax[k].message = MsgTxOrigin => syntax[k].line \in 1..Len(lines)
            /\ \A n \in 1..Len(lines) :
                 IF TxAt(lines[n]) # {}
                 THEN /\ Cardinality(TxFindings(syntax, n)) = 1
                      /\ \A k \in TxFindings(syntax, n) : TxReplaced(lines[n], syntax[k].fix)
                 ELSE TxFindings(syntax, n) = {}

\* C6 witness: the second line starts with a space and holds tx.origin, the
\* first line holds none, and the text has been analysed
C6_Witness ==
    /\ pc = "syntax"
    /\ Len(split(code)) = 2
    /\ TxAt(split(code)[1]) = {}
    /\ TxAt(split(code)[2]) # {}
    /\ split(code)[2][1] = " "
    /\ TxFindings(syntax, 2) # {}

\* C7: after every line with a tx.origin finding is replaced by the finding's
\* fix, analyzeSyntax reports no tx.origin finding.
C7_TxOriginFixRoundTrip ==
    pc = "rechecked" =>
        \A k \in 1..Len(recheck) : recheck[k].message # MsgTxOrigin

\* C7 witness: a line with two tx.origin has been fixed and re-analysed
C7_Witness ==
    /\ pc = "rechecked"
    /\ \E n \in 1..Len(split(code)) : Cardinality(TxAt(split(code)[n])) = 2
    /\ fixes # <<>>
    /\ fixedCode # code

ReentrancyCount(is) == Cardinality({k \in 1..Len(is) : is[k].title = TitleReentrancy})

\* C8: analyzeContract emits exactly one reentrancy issue when the document
\* has a payable function signature and no guard pattern anywhere, whatever
\* the number of payable functions, and none otherwise.
C8_OneReentrancyFinding ==
    pc = "audited" =>
        ReentrancyCount(issues) =
            IF hasPayableFunctions(code) /\ ~hasReentrancyGuard(code) THEN 1 ELSE 0

\* C8 witness: two payable function lines, no guard, one reentrancy issue
C8_Witness ==
    /\ pc = "audited"
    /\ Cardinality({n \in 1..Len(split(code)) :
                      hasPayableFunctions(split(code)[n])}) = 2
    /\ ~hasReentrancyGuard(code)
    /\ ReentrancyCount(issues) = 1

(***************************************************************************)
(* Claims about export and import (Spec)                                   *)
(***************************************************************************)
\* C9: no contract.sol is ever produced from an empty or whitespace-only
\* source text, whichever export path the user takes.
C9_NoBlankDownload ==
    \A k \in 1..Len(downloads) : ~WhitespaceOnly(downloads[k])

appState == <<generatedCode, elements, selectedElement, showAudit, showOptimization>>

\* C10: picking a file whose name does not end in .sol, or a read that fails,
\* leaves source text, element list, selection and panel visibility unchanged
\* and shows a notice; a successful read makes the source text the file's text.
C10_Import ==
    [][/\ \A f \in Files :
            (~endsWith(f.name, <<".","s","o","l">>) /\ handleFileChange(f)) =>
                (UNCHANGED appState /\ alerts = NoAlert /\ alerts' = AlertNotSol)
       /\ \A k \in 1..Len(pending) :
            (pending' = RemoveAt(pending, k)) =>
                IF pending[k].file.readable
                THEN generatedCode' = pending[k].file.content
                ELSE (UNCHANGED appState /\ alerts = NoAlert /\ alerts' = AlertReadError)
      ]_vars

\* C10 witness: a read has just failed while a source text imported verbatim
\* (blank, with its line break), an element and an open panel are in place
C10_Witness ==
    /\ alerts = AlertReadError
    /\ generatedCode = <<" ","\n">>
    /\ Len(elements) > 0
    /\ selectedElement # Null
    /\ showAudit

(***************************************************************************)
(* Claims about the element list (SpecElements)                            *)
(***************************************************************************)
\* the elements of a list whose id is not id, in list order
RECURSIVE WithOtherId(_, _)
WithOtherId(list, id) ==
    IF list = <<>>
    THEN <<>>
    ELSE (IF Head(list).id # id THEN <<Head(list)>> ELSE <<>>)
             \o WithOtherId(Tail(list), id)

\* C11: deleteElement(id) leaves no element with that id in the list, keeps
\* every element with another id, unchanged and in the same relative order,
\* and sets the selection to null exactly when the selected element had that
\* id (any other selection, null included, stays as it was).
C11_DeleteElement ==
    [][\A k \in 1..Len(elements) :
          LET id == elements[k].id
              selectedHadId == selectedElement # Null /\ selectedElement.id = id
          IN  deleteElement(id) =>
                /\ \A j \in 1..Len(elements') : elements'[j].id # id
                /\ elements' = WithOtherId(elements, id)
                /\ selectedHadId => selectedElement' = Null
                /\ ~selectedHadId => selectedElement' = selectedElement
      ]_vars

\* C11 witness: the element added first has been deleted while the one added
\* second was selected; it is still in the list and still selected
C11_Witness ==
    /\ Len(elements) = 1
    /\ elements[1].position.x = 150
    /\ selectedElement = elements[1]

IdsOf(list) == [k \in 1..Len(list) |-> list[k].id]

\* C12: after every step no two elements of the list have the same id, and
\* the ids of the list are the ids it had, in the same order, with at most a
\* new one appended or the ones of deleted elements taken out.
C12_UniqueStableIds ==
    [][/\ \A i, j \in 1..Len(elements') :
            i # j => elements'[i].id # elements'[j].id
       /\ \/ IdsOf(elements') = IdsOf(elements)
          \/ /\ Len(elements') = Len(elements) + 1
             /\ SubSeq(IdsOf(elements'), 1, Len(elements)) = IdsOf(elements)
          \/ \E k \in 1..Len(elements) :
                IdsOf(elements') = IdsOf(WithOtherId(elements, elements[k].id))
      ]_vars

(***************************************************************************)
(* Claims about generateContract (SpecGenerate)                            *)
(***************************************************************************)
\* generateContract has run: before it the source text is empty
Generated == generatedCode # <<>>

SpdxLine == <<"/","/"," ","S","P","D","X","-","L","i","c","e","n","s","e","-","I","d","e","n","t","i","f","i","e","r",":"," ","M","I","T">>
PragmaLine == <<"p","r","a","g","m","a"," ","s","o","l","i","d","i","t","y"," ","^","0",".","8",".","1","9",";">>
ContractLine == <<"c","o","n","t","r","a","c","t"," ","G","e","n","e","r","a","t","e","d","C","o","n","t","r","a","c","t"," ","{">>
DocBlock ==
    <<<<"/","*","*">>,
      <<" ","*"," ","@","t","i","t","l","e"," ","G","e","n","e","r","a","t","e","d"," ","S","m","a","r","t"," ","C","o","n","t","r","a","c","t">>,
      <<" ","*"," ","@","d","e","v"," ","T","h","i","s"," ","c","o","n","t","r","a","c","t"," ","w","a","s"," ","g","e","n","e","r","a","t","e","d"," ","u","s","i","n","g"," ","S","m","a","r","t"," ","C","o","n","t","r","a","c","t"," ","C","o","p","i","l","o","t">>,
      <<" ","*"," ","@","n","o","t","i","c","e"," ","D","r","a","g"," ","&"," ","d","r","o","p"," ","s","m","a","r","t"," ","c","o","n","t","r","a","c","t"," ","d","e","v","e","l","o","p","m","e","n","t"," ","t","o","o","l">>,
      <<" ","*","/">>>>

\* the numbers of the lines of ls equal to l
LinesEqual(ls, l) == {k \in 1..Len(ls) : ls[k] = l}

\* the doc-comment block stands at lines from..from+4 of ls
DocBlockAt(ls, from) ==
    /\ from + Len(DocBlock) - 1 <= Len(ls)
    /\ SubSeq(ls, from, from + Len(DocBlock) - 1) = DocBlock

\* one container declaration, opened at line c and closed by the last line
OneContainer(ls, c) ==
    /\ LinesEqual(ls, ContractLine) = {c}
    /\ \A k \in 1..Len(ls) : startsWith(ls[k], <<"c","o","n","t","r","a","c","t">>) => k = c
    /\ Len(ls) > c + 1
    /\ ls[Len(ls) - 1] = <<"}">>
    /\ ls[Len(ls)] = <<>>

\* C13 as stated: licence line, then the doc-comment block, then the pragma
\* line, then the one container declaration closed by a final brace.
C13_LicenceDocPragmaContainer ==
    Generated =>
        LET ls == split(generatedCode)
        IN  /\ ls[1] = SpdxLine
            /\ \E d, p, c \in 2..Len(ls) :
                  /\ DocBlockAt(ls, d)
                  /\ d + Len(DocBlock) - 1 < p
                  /\ ls[p] = PragmaLine
                  /\ p < c
                  /\ OneContainer(ls, c)

\* C13 amended: licence line, then the pragma line, then the doc-comment
\* block, then the one container declaration closed by a final brace.
C13_LicencePragmaDocContainer ==
    Generated =>
        LET ls == split(generatedCode)
        IN  /\ ls[1] = SpdxLine
            /\ \E p, d, c \in 2..Len(ls) :
                  /\ ls[p] = PragmaLine
                  /\ p < d
                  /\ DocBlockAt(ls, d)
                  /\ d + Len(DocBlock) - 1 < c
                  /\ OneContainer(ls, c)

\* C13 witness: a text generated from a list of two elements
C13_Witness ==
    /\ Generated
    /\ Len(elements) = 2
    /\ elements[1].type = "function"
    /\ elements[2].type = "variable"

KindOrder ==
    <<"variable", "event", "modifier", "constructor", "function", "struct", "enum",
      "mapping">>

SectionTitle ==
    [variable |-> <<" "," "," "," ","/","/"," ","S","t","a","t","e"," ","V","a","r","i","a","b","l","e","s">>,
     event |-> <<" "," "," "," ","/","/"," ","E","v","e","n","t","s">>,
     modifier |-> <<" "," "," "," ","/","/"," ","M","o","d","i","f","i","e","r","s">>,
     constructor |-> <<" "," "," "," ","/","/"," ","C","o","n","s","t","r","u","c","t","o","r">>,
     function |-> <<" "," "," "," ","/","/"," ","F","u","n","c","t","i","o","n","s">>,
     struct |-> <<" "," "," "," ","/","/"," ","S","t","r","u","c","t","s">>,
     enum |-> <<" "," "," "," ","/","/"," ","E","n","u","m","s">>,
     mapping |-> <<" "," "," "," ","/","/"," ","M","a","p","p","i","n","g","s">>]

IsTitle(l) == \E kind \in DOMAIN SectionTitle : l = SectionTitle[kind]

NonBlank(ls) == SelectSeq(ls, LAMBDA l : trim(l) # <<>>)

\* the lines of the section of a kind in the lines ls of a generated text:
\* from its title to the next title or the closing brace, blank lines dropped
SectionBody(ls, kind) ==
    LET t == CHOOSE k \in LinesEqual(ls, SectionTitle[kind]) : TRUE
        ends == {k \in (t + 1)..Len(ls) : IsTitle(ls[k]) \/ ls[k] = <<"}">>}
        e == CHOOSE k \in ends : \A m \in ends : k <= m
    IN  NonBlank(SubSeq(ls, t + 1, e - 1))

\* the lines an element is rendered as, without blank lines and title
DeclLines(element) ==
    SelectSeq(NonBlank(split(renderElement(element))), LAMBDA l : ~IsTitle(l))

\* the elements of list at the positions of I, in list order
RECURSIVE Picked(_, _, _)
Picked(list, I, k) ==
    IF k > Len(list) THEN <<>>
    ELSE (IF k \in I THEN <<list[k]>> ELSE <<>>) \o Picked(list, I, k + 1)

RECURSIVE DeclLinesOfAll(_)
DeclLinesOfAll(list) ==
    IF list = <<>> THEN <<>> ELSE DeclLines(Head(list)) \o DeclLinesOfAll(Tail(list))

\* C14: the text has the title of a kind exactly when the list has an
\* element of that kind, the titles stand in the fixed kind order whatever
\* the list order, and the lines of a section are the declarations of
\* elements of its kind taken in list order.
C14_SectionOrder ==
    Generated =>
        LET ls == split(generatedCode)
            at(kind) == LinesEqual(ls, SectionTitle[kind])
        IN  /\ \A kind \in AllTypes :
                  IF Len(OfType(elements, kind)) > 0
                  THEN Cardinality(at(kind)) = 1
                  ELSE at(kind) = {}
            /\ \A i, j \in 1..Len(KindOrder) :
                  (i < j /\ at(KindOrder[i]) # {} /\ at(KindOrder[j]) # {}) =>
                      \A a \in at(KindOrder[i]), b \in at(KindOrder[j]) : a < b
            /\ \A kind \in AllTypes :
                  LET ofKind == OfType(elements, kind)
                  IN  Len(ofKind) > 0 =>
                        \E I \in SUBSET (1..Len(ofKind)) :
                          /\ I # {}
                          /\ SectionBody(ls, kind) = DeclLinesOfAll(Picked(ofKind, I, 1))

\* C14 witness: a function ahead of a variable in the list, the variable
\* section ahead of the function section in the generated text
C14_Witness ==
    /\ Generated
    /\ Len(elements) = 2
    /\ elements[1].type = "function"
    /\ elements[2].type = "variable"
    /\ elements[2].config = EmptyConfig
    /\ LET ls == split(generatedCode)
       IN  \E a, b \in 1..Len(ls) :
             /\ a < b
             /\ ls[a] = <<" "," "," "," ","u","i","n","t","2","5","6"," ","p","u","b","l","i","c"," ","v","a","r","i","a","b","l","e",";">>
             /\ ls[b] = <<" "," "," "," ","/","/"," ","F","u","n","c","t","i","o","n","s">>

\* what the declaration of an element of a kind opens with
Opener ==
    [event |-> <<" "," "," "," ","e","v","e","n","t"," ">>,
     modifier |-> <<" "," "," "," ","m","o","d","i","f","i","e","r"," ">>,
     constructor |-> <<" "," "," "," ","c","o","n","s","t","r","u","c","t","o","r","(">>,
     function |-> <<" "," "," "," ","f","u","n","c","t","i","o","n"," ">>,
     struct |-> <<" "," "," "," ","s","t","r","u","c","t"," ">>,
     enum |-> <<" "," "," "," ","e","n","u","m"," ">>,
     mapping |-> <<" "," "," "," ","m","a","p","p","i","n","g","(">>]

\* the number of declarations of a kind in the lines of a generated text: the
\* lines of the state-variable section, the lines opening with the keyword
\* of any other kind
DeclCount(ls, kind) ==
    IF kind = "variable"
    THEN IF LinesEqual(ls, SectionTitle[kind]) = {}
         THEN 0
         ELSE Len(SectionBody(ls, kind))
    ELSE Cardinality({k \in 1..Len(ls) : startsWith(ls[k], Opener[kind])})

\* C15 as stated: for every kind the text holds as many declarations of the
\* kind as the list holds elements of it.
C15_EveryElementRendered ==
    Generated =>
        \A kind \in AllTypes :
            DeclCount(split(generatedCode), kind) = Len(OfType(elements, kind))

\* C15 amended: for every kind but constructor the text holds as many
\* declarations of the kind as the list holds elements of it; it holds one
\* constructor when the list holds one or more, the first one's, else none.
C15_EveryElementButLaterConstructors ==
    Generated =>
        LET ls == split(generatedCode)
            constructors == OfType(elements, "constructor")
        IN  /\ \A kind \in AllTypes \ {"constructor"} :
                  DeclCount(ls, kind) = Len(OfType(elements, kind))
            /\ DeclCount(ls, "constructor") = IF Len(constructors) > 0 THEN 1 ELSE 0
            /\ Len(constructors) > 0 =>
                  SectionBody(ls, "constructor") = DeclLines(Head(constructors))

\* C15 witness: a text generated from two events and one from two
\* constructors are both reached; this one has the two events
C15_Witness ==
    /\ Generated
    /\ Len(elements) = 2
    /\ elements[1].type = "event"
    /\ elements[2].type = "event"
    /\ DeclCount(split(generatedCode), "event") = 2

\* a text field of a config is absent or ''
Missing(config, key) == key \notin DOMAIN config \/ config[key] = <<>>

Placeholder ==
    [variable |-> <<"v","a","r","i","a","b","l","e">>,
     event |-> <<"N","e","w","E","v","e","n","t">>,
     modifier |-> <<"n","e","w","M","o","d","i","f","i","e","r">>,
     function |-> <<"n","e","w","F","u","n","c","t","i","o","n">>,
     struct |-> <<"N","e","w","S","t","r","u","c","t">>,
     enum |-> <<"S","t","a","t","u","s">>,
     mapping |-> <<"m","a","p","p","i","n","g">>]

\* the first line of the declaration of the j-th element of a kind
FirstDeclLine(ls, kind, j) ==
    LET body == SectionBody(ls, kind)
        ofKind == OfType(elements, kind)
    IN  body[((j - 1) * (Len(body) \div Len(ofKind))) + 1]

\* C16: a variable with no dataType, visibility and name is declared as
\* uint256 public variable; and in the declaration of every element a missing
\* visibility reads public, a missing type uint256 and a missing name the
\* placeholder of the kind.
C16_Defaults ==
    Generated =>
        LET ls == split(generatedCode)
        IN  \A kind \in AllTypes \ {"constructor"} :
              LET ofKind == OfType(elements, kind)
              IN  \A j \in 1..Len(ofKind) :
                    LET config == ofKind[j].config
                        line == FirstDeclLine(ls, kind, j)
                    IN  /\ (/\ kind = "variable"
                            /\ Missing(config, "dataType")
                            /\ Missing(config, "visibility")
                            /\ Missing(config, "name")) =>
                               line = <<" "," "," "," ","u","i","n","t","2","5","6"," ","p","u","b","l","i","c"," ","v","a","r","i","a","b","l","e",";">>
                        /\ (kind = "variable" /\ Missing(config, "name")) =>
                               endsWith(line, <<" ","v","a","r","i","a","b","l","e",";">>)
                        /\ (kind = "variable" /\ Missing(config, "dataType")) =>
                               startsWith(line, <<" "," "," "," ","u","i","n","t","2","5","6"," ">>)
                        /\ (kind = "variable" /\ Missing(config, "visibility")) =>
                               includes(line, <<" ","p","u","b","l","i","c"," ">>)
                        /\ (kind = "mapping" /\ Missing(config, "name")) =>
                               endsWith(line, <<" ","m","a","p","p","i","n","g",";">>)
                        /\ (kind = "mapping" /\ Missing(config, "visibility")) =>
                               startsWith(line, <<" "," "," "," ","m","a","p","p","i","n","g","(","a","d","d","r","e","s","s"," ","=",">"," ","u","i","n","t","2","5","6",")"," ","p","u","b","l","i","c"," ">>)
                        /\ (kind = "function" /\ Missing(config, "visibility")) =>
                               includes(line, <<")"," ","p","u","b","l","i","c">>)
                        /\ (kind \in {"event", "modifier", "function"}
                                /\ Missing(config, "name")) =>
                               startsWith(line, Opener[kind] \o Placeholder[kind] \o <<"(">>)
                        /\ (kind \in {"struct", "enum"} /\ Missing(config, "name")) =>
                               startsWith(line, Opener[kind] \o Placeholder[kind] \o <<" ","{">>)

\* C16 witness: a function whose name was typed and erased next to a fresh
\* variable, both rendered with their defaults
C16_Witness ==
    /\ Generated
    /\ Len(elements) = 2
    /\ elements[1].type = "function"
    /\ elements[1].config = [name |-> <<>>]
    /\ elements[2].type = "variable"
    /\ elements[2].config = EmptyConfig
    /\ includes(generatedCode, <<" "," "," "," ","f","u","n","c","t","i","o","n"," ","n","e","w","F","u","n","c","t","i","o","n","(",")"," ","p","u","b","l","i","c"," ","{">>)

\* the text generated from the empty list: the header and an empty body
EmptyContract ==
    <<"/","/"," ","S","P","D","X","-","L","i","c","e","n","s","e","-","I","d","e","n","t","i","f","i","e","r",":"," ","M","I","T","\n","p","r","a","g","m","a"," ","s","o","l","i","d","i","t","y"," ","^","0",".","8",".","1","9",";","\n","\n","/","*","*","\n"," ","*"," ","@","t","i","t","l","e"," ","G","e","n","e","r","a","t","e","d"," ","S","m","a","r","t"," ","C","o","n","t","r","a","c","t","\n"," ","*"," ","@","d","e","v"," ","T","h","i","s"," ","c","o","n","t","r","a","c","t"," ","w","a","s"," ","g","e","n","e","r","a","t","e","d"," ","u","s","i","n","g"," ","S","m","a","r","t"," ","C","o","n","t","r","a","c","t"," ","C","o","p","i","l","o","t","\n"," ","*"," ","@","n","o","t","i","c","e"," ","D","r","a","g"," ","&"," ","d","r","o","p"," ","s","m","a","r","t"," ","c","o","n","t","r","a","c","t"," ","d","e","v","e","l","o","p","m","e","n","t"," ","t","o","o","l","\n"," ","*","/","\n","c","o","n","t","r","a","c","t"," ","G","e","n","e","r","a","t","e","d","C","o","n","t","r","a","c","t"," ","{","\n","}","\n">>

\* C17: generateContract changes nothing of the application state but the
\* source text; invoked again on the unchanged list it leaves the text it
\* generated as it is; on the empty list the text is the header followed by
\* an empty container body.
C17_Idempotent ==
    [][/\ UNCHANGED <<elements, selectedElement, showAudit, showOptimization,
                      pending, alerts, downloads, clock>>
       /\ Generated => generatedCode' = generatedCode
       /\ elements = <<>> => generatedCode' = EmptyContract
      ]_vars

\* C17 witness: the text generated from the empty list, on which the second
\* invocation acts
C17_Witness ==
    /\ Generated
    /\ elements = <<>>
    /\ generatedCode = EmptyContract
    /\ editableCode = generatedCode

(***************************************************************************)
(* Claims about the line rules (SpecAnalyzer, SpecSyntaxRules)             *)
(***************************************************************************)
SpdxLiteral == <<"S","P","D","X","-","L","i","c","e","n","s","e","-","I","d","e","n","t","i","f","i","e","r">>

\* the literal stands on some line of the text
OnSomeLine(text, literal) ==
    \E n \in 1..Len(split(text)) : includes(split(text)[n], literal)

MissingSpdxIssues(is) == {k \in 1..Len(is) : is[k].title = TitleLicense}
MissingSpdxErrors(errors) == {k \in 1..Len(errors) : errors[k].message = MsgSpdx}

\* C18: on a text that is not blank, analyzeContract and analyzeSyntax each
\* report the missing licence identifier once when the literal
\* SPDX-License-Identifier stands on no line, and not at all when it stands
\* on some line, the first or a later one.
C18_SpdxDocumentLevel ==
    ~WhitespaceOnly(code) =>
        LET expected == IF OnSomeLine(code, SpdxLiteral) THEN 0 ELSE 1
        IN  /\ pc = "audited" => Cardinality(MissingSpdxIssues(issues)) = expected
            /\ pc = "syntax" => Cardinality(MissingSpdxErrors(syntax)) = expected

\* the positions at which now stands as a word of its own in a line
BareNow(l) == {i \in 1..Len(l) : BareNowAt(l, i)}

\* the findings of a syntax list with a message that carry line n
FindingsOf(errors, message, n) ==
    {k \in 1..Len(errors) : errors[k].message = message /\ errors[k].line = n}

\* the one fix that was applied is the fix of a finding with the message
AppliedFixOf(message) ==
    /\ pc = "rechecked"
    /\ Len(fixes) = 1
    /\ \E k \in FindingsOf(syntax, message, fixes[1].line) : syntax[k].fix = fixes[1].fix

\* C19: a line gets a deprecated-now finding exactly when now stands in it as
\* a word of its own (not inside snow or known); the fix holds
\* block.timestamp for every such now and no such now any more; after the
\* fix is applied the analysis reports the rule no more for that line.
C19_DeprecatedNow ==
    /\ pc = "syntax" =>
          LET lines == split(code)
          IN  \A n \in 1..Len(lines) :
                IF BareNow(lines[n]) # {}
                THEN /\ Cardinality(FindingsOf(syntax, MsgNow, n)) = 1
                     /\ \A k \in FindingsOf(syntax, MsgNow, n) :
                          /\ BareNow(syntax[k].fix) = {}
                          /\ Len(syntax[k].fix) =
                                Len(lines[n]) + 12 * Cardinality(BareNow(lines[n]))
                ELSE FindingsOf(syntax, MsgNow, n) = {}
    /\ AppliedFixOf(MsgNow) => FindingsOf(recheck, MsgNow, fixes[1].line) = {}

DeclarationKeywords ==
    {<<"p","r","a","g","m","a">>, <<"i","m","p","o","r","t">>, <<"c","o","n","t","r","a","c","t">>, <<"i","n","t","e","r","f","a","c","e">>, <<"l","i","b","r","a","r","y">>}

\* the trimmed line opens a comment or continues a block comment
CommentLine(t) ==
    startsWith(t, <<"/","/">>) \/ startsWith(t, <<"/","*">>) \/ startsWith(t, <<"*">>)

\* the trimmed line holds a declaration keyword as a word of its own
DeclarationLine(t) ==
    \E kw \in DeclarationKeywords : \E i \in 1..Len(t) :
        IsAt(t, kw, i) /\ Boundary(t, i) /\ Boundary(t, i + Len(kw))

SemicolonExpected(line) ==
    LET t == trim(line)
    IN  /\ t # <<>>
        /\ ~CommentLine(t)
        /\ ~DeclarationLine(t)
        /\ t[Len(t)] \notin {";", "{", "}"}

\* C20: a line gets a missing-semicolon finding exactly when, trimmed, it is
\* not empty, is no comment line, declares none of pragma, import, contract,
\* interface, library and does not end in ; { or }; the fix is the line with
\* ; appended; after the fix is applied the analysis reports the rule no
\* more for that line.
C20_MissingSemicolon ==
    /\ pc = "syntax" =>
          LET lines == split(code)
          IN  \A n \in 1..Len(lines) :
                IF SemicolonExpected(lines[n])
                THEN /\ Cardinality(FindingsOf(syntax, MsgSemicolon, n)) = 1
                     /\ \A k \in FindingsOf(syntax, MsgSemicolon, n) :
                          syntax[k].fix = lines[n] \o <<";">>
                ELSE FindingsOf(syntax, MsgSemicolon, n) = {}
    /\ AppliedFixOf(MsgSemicolon) =>
          FindingsOf(recheck, MsgSemicolon, fixes[1].line) = {}

(***************************************************************************)
(* Claims about import, selection, panels and the editor buffer            *)
(***************************************************************************)
\* C21: at most one file read is in flight at any time, and the read that
\* resumes with text is the one of the file selected last, whose text
\* becomes the source text.
C21_ImportsNeverOverlap ==
    [][/\ Len(pending') <= 1
       /\ \A k \in 1..Len(pending) :
            (pending' = RemoveAt(pending, k) /\ pending[k].file.readable) =>
                /\ k = Len(pending)
                /\ generatedCode' = pending[Len(pending)].file.content
      ]_vars

\* C22: the selection is null or equal, id and config, to an element of the
\* list.
C22_SelectionInList ==
    \/ selectedElement = Null
    \/ \E k \in 1..Len(elements) :
          /\ elements[k].id = selectedElement.id
          /\ elements[k].config = selectedElement.config

\* C23: updateElement(id, updates) keeps length and order of the list, keeps
\* every element with another id as it is, gives the elements with that id
\* the fields of updates and keeps their other fields; with no element of
\* that id the list is unchanged.
C23_UpdateElementFrame ==
    [][\A k \in 1..Len(elements), c \in Configs :
          LET id == elements[k].id
              updates == [config |-> c]
          IN  updateElement(id, updates) =>
                /\ Len(elements') = Len(elements)
                /\ \A j \in 1..Len(elements) :
                     IF elements[j].id = id
                     THEN /\ elements'[j].config = c
                          /\ elements'[j].id = elements[j].id
                          /\ elements'[j].type = elements[j].type
                          /\ elements'[j].position = elements[j].position
                     ELSE elements'[j] = elements[j]
                /\ (\A j \in 1..Len(elements) : elements[j].id # id) =>
                      elements' = elements
      ]_vars

\* C23 witness: of two elements with different ids the second one has been
\* given a name, the first one is as it was added
C23_Witness ==
    /\ Len(elements) = 2
    /\ elements[1].id # elements[2].id
    /\ elements[1].config = EmptyConfig
    /\ elements[2].config = [name |-> <<"a">>]
    /\ elements[2].position = [x |-> 150, y |-> 130]

\* C28: the audit panel and the optimization panel are never both shown.
C28_PanelsExclusive == ~(showAudit /\ showOptimization)

\* C30: while the editor is in editing mode its buffer changes only by typing
\* or by Cancel; Save makes the buffer the source text; Cancel leaves the
\* source text as it is.
C30_BufferOnlyTyped ==
    [][/\ (isEditing /\ editableCode' # editableCode) =>
            \/ \E text \in UITexts : typeCode(text)
            \/ handleCancel
       /\ handleSave => generatedCode' = editableCode
       /\ handleCancel => generatedCode' = generatedCode
      ]_vars

(***************************************************************************)
(* Claims about the generator's output under the analyzer                  *)
(***************************************************************************)
FreeTextFields == {"name", "parameters", "returns"}

NoFreeText(list) ==
    \A k \in 1..Len(list) : DOMAIN list[k].config \cap FreeTextFields = {}

\* C29: for an element list whose elements set no free-text field (name,
\* parameters, returns), analyzeSyntax of the text generateContract produces
\* is the empty list.
C29_GeneratedTextClean ==
    (Generated /\ NoFreeText(elements)) => analyzeSyntax(generatedCode) = <<>>

(***************************************************************************)
(* Claims about OptimizationPanel (SpecPanel, SpecFixLoop)                 *)
(***************************************************************************)
\* the displayed analysis is the analysis of the current text and line n is
\* a line of it
AnalysedLine(n) ==
    /\ analysis = analyzeCode(generatedCode)
    /\ n \in 1..Len(split(generatedCode))

\* C24: whenever applySyntaxFix or applyGasOptimization overwrites line L of
\* the source text, the displayed analysis is the analysis of the current
\* text and L is one of its lines.
C24_FixOnAnalysedLine ==
    [][\A index \in 1..MaxFindings :
          /\ applySyntaxFix(index) => AnalysedLine(analysis.syntaxErrors[index].line)
          /\ applyGasOptimization(index) =>
                AnalysedLine(analysis.gasOptimizations[index].line)
      ]_vars

TxOriginFindings(errors) == {k \in 1..Len(errors) : errors[k].message = MsgTxOrigin}

\* C25: after applyAllFixes on an up-to-date analysis, the analysis of the
\* resulting text holds no tx.origin finding.
C25_FixAllFixesTxOrigin ==
    [][(applyAllFixes /\ analysis = analyzeCode(generatedCode)) =>
          TxOriginFindings(analyzeCode(generatedCode').syntaxErrors) = {}
      ]_vars

\* the loop has come to rest: no issue is left, or Fix All leaves the text
\* as it is
Settled ==
    /\ analysis # Null
    /\ \/ ~analysis.hasIssues
       \/ FixAllText(generatedCode, analysis) = generatedCode

\* C26: the loop of Fix All and re-analysis comes to rest: after the rounds
\* of the bound and the last re-analysis, no issue is left or the text no
\* longer changes.
C26_FixLoopSettles ==
    (rounds = MaxRounds /\ timers = <<>>) => Settled

\* C27: every finding of a newly set analysis result starts as not applied:
\* when a callback sets the analysis, no id of its findings is marked.
C27_NewFindingsNotApplied ==
    [][(\E k \in 1..Len(timers) : analysisDone(k) \/ reanalysisDone(k)) =>
          appliedFixes' \cap AllFixIds(analysis') = {}
      ]_vars

====
